---- MODULE Spec2Model ----
(***************************************************************************)
(* A model of MKtoPDF: the markdown -> sanitized HTML -> post-processed    *)
(* preview pipeline (src/lib/markdownEngine.ts, markdownParser,            *)
(* styleSettings), the parse worker (src/workers/markdown.worker.ts) and   *)
(* the App component that drives them.                                     *)
(*                                                                         *)
(* Strings are sequences of tokens.  A token is a piece of text that the   *)
(* code's regular expressions and the HTML parser never split.             *)
(***************************************************************************)
EXTENDS Integers, Sequences, FiniteSets, TLC

VARIABLES
  \* ---- sanitizeHtml (src/lib/markdownEngine.ts:66-97)
  sanIn,        \* rawHtml, the argument
  sanWindow,    \* whether typeof window !== 'undefined' where the call runs
  sanPc,        \* "call" before the call, "done" after it returned
  sanRun,       \* the record of the call: protectedHtml, placeholders, clean, out
  \* ---- one message handled by the parse worker (src/workers/markdown.worker.ts:22-36)
  wkData,       \* e.data of the message
  wkPc,         \* where the handler and the parseMarkdown call it awaits stand
  wkStage,      \* the dynamic import parseMarkdown is awaiting (index into ImportStages)
  wkPromise,    \* the promise parseMarkdown returned: state and value
  wkPosted,     \* the messages the handler posted back, in order
  wkThrown,     \* history: the message of the error a stage threw, "" when none did
  \* ---- the App component (App, part_007:88-246) with its worker
  appPc,          \* "mounting" before the effects of the first render ran, then "running"
  markdownInput,  \* useLocalStorage state: the source text
  mountText,      \* markdownInput as the mount effect's closures captured it
  htmlOutput,     \* useState: the displayed HTML
  isProcessing,   \* useState
  usingFallback,  \* useRef
  workerRef,      \* "none", "alive", or "dead" after a runtime error
  timers,         \* pending setTimeout callbacks of the debounce effect: remaining ms, text
  sinceEdit,      \* ms since the last edit (or the mount), up to DEBOUNCE_MS
  wInbox,         \* texts posted to the worker and not yet received by it
  wWaiting,       \* texts whose parseMarkdown awaits the worker's module loads
  wLoaded,        \* whether the worker has loaded the parser's modules
  responses,      \* messages the worker posted and the App has not handled yet
  mWaiting,       \* texts whose processOnMainThread awaits the main thread's module loads
  mLoaded,        \* whether the main thread has loaded the parser's modules
  edits,          \* history: number of edits so far
  burstLen,       \* history: edits of the current burst (each < DEBOUNCE_MS after the last)
  debounced,      \* history: timer callbacks that dispatched since the last edit
  lastTimerText,  \* history: the text the last timer callback dispatched
  shown,          \* history: the path and source text that htmlOutput was computed from
  \* ---- renderMermaidDiagrams (markdownEngine.ts:249-273)
  mmContainer,      \* the container's child elements, in document order
  mmBlocks,         \* the querySelectorAll result: positions of the matching code elements
  mmIdx,            \* position of the for loop in mmBlocks
  mmPc,             \* "off", "call", "loop", "done"
  mermaidIdCounter, \* the module's counter
  mmWarned,         \* what console.warn was given, in order
  mmFailed,         \* history: positions of the blocks whose render threw
  \* ---- transformCallouts (markdownEngine.ts:173-239)
  clContainer,  \* the blockquotes of the container, in document order
  clSettings,   \* the settings argument: its calloutColors
  clOut,        \* the container's elements after the call
  clAgain,      \* the container's elements after a second call on the result
  clPc,         \* "off", "call", "done", "again"
  \* ---- preprocessMarkdown as a call (markdownParser:11-16)
  ppIn,         \* the markdown argument
  ppOut,        \* the returned string
  ppAgain,      \* what a second call returned for the returned string
  ppPc,         \* "off", "call", "done", "again"
  \* ---- the preview: its post-process effect (part_008:33-47) and postProcessHtml
  pvHtml,    \* the htmlContent prop: the elements of the sanitized HTML
  pvNodes,   \* the child elements of the preview container, in document order
  pvGen,     \* how many times the effect has assigned the container's innerHTML
  pvCalls,   \* the postProcessHtml calls started on the container, in order
  pvWarned,  \* what console.warn and console.error were given, in order
  \* ---- stylesToCSSVars (styleSettings:75-101) and the style values printPdf resolves (useExport.ts:19-55)
  stSettings,  \* the settings record
  stCssVars,  \* what stylesToCSSVars returned
  stPrint,  \* the literal values printPdf resolved
  stDone, \* which of the two has been computed
  \* ---- the export: handleExport and printPdf (useExport.ts:8-304)
  exHtmlOutput,  \* the htmlOutput state: the elements of the sanitized HTML
  exSettings,  \* the styleSettings state
  exPreview,  \* the child elements of the preview container
  exArgs,  \* the arguments printPdf was called with
  exPc,  \* where the printPdf call is
  exContainer,  \* the child elements of tempContainer
  exDoc,  \* the iframe document: its state and the content written into it
  exToasts,  \* the toast calls, in order
  exIsExporting,  \* the isExporting state
  exLog,  \* what the call has done to the print document, in order
  exTimer,  \* milliseconds until the settle timer fires, -1 without one
  exSinceLoad,  \* milliseconds since the document was seen as loaded
  exFailed,  \* the steps of the call that failed
  exWarned,  \* what console.warn and console.error were given
  exIframes,  \* the hidden print iframes attached to document.body
  exCleanup  \* whether the timer that removes the iframe is pending

sanVars == <<sanIn, sanWindow, sanPc, sanRun>>
wkVars  == <<wkData, wkPc, wkStage, wkPromise, wkPosted, wkThrown>>

appVars == <<appPc, markdownInput, mountText, htmlOutput, isProcessing, usingFallback,
             workerRef, timers, sinceEdit, wInbox, wWaiting, wLoaded, responses,
             mWaiting, mLoaded, edits, burstLen, debounced, lastTimerText, shown>>

mmVars == <<mmContainer, mmBlocks, mmIdx, mmPc, mermaidIdCounter, mmWarned, mmFailed>>

clVars == <<clContainer, clSettings, clOut, clAgain, clPc>>

ppVars == <<ppIn, ppOut, ppAgain, ppPc>>

pvVars == <<pvHtml, pvNodes, pvGen, pvCalls, pvWarned>>

stVars == <<stSettings, stCssVars, stPrint, stDone>>

exVars == <<exHtmlOutput, exSettings, exPreview, exArgs, exPc, exContainer, exDoc, exToasts, exIsExporting, exLog, exTimer, exSinceLoad, exFailed, exWarned, exIframes, exCleanup>>

vars == <<sanVars, wkVars, appVars, mmVars, clVars, ppVars, pvVars, stVars, exVars>>

\* what each component's actions leave alone
notSan == <<wkVars, appVars, mmVars, clVars, ppVars, pvVars, stVars, exVars>>
notWk  == <<sanVars, appVars, mmVars, clVars, ppVars, pvVars, stVars, exVars>>
notApp == <<sanVars, wkVars, mmVars, clVars, ppVars, pvVars, stVars, exVars>>
notMm  == <<sanVars, wkVars, appVars, clVars, ppVars, pvVars, stVars, exVars>>
notCl  == <<sanVars, wkVars, appVars, mmVars, ppVars, pvVars, stVars, exVars>>
notPp  == <<sanVars, wkVars, appVars, mmVars, clVars, pvVars, stVars, exVars>>
\* the preview's calls draw their render ids from mermaidIdCounter
mmOther == <<mmContainer, mmBlocks, mmIdx, mmPc, mmWarned, mmFailed>>
notPv  == <<sanVars, wkVars, appVars, mmOther, clVars, ppVars, stVars, exVars>>
notSt == <<sanVars, wkVars, appVars, mmVars, clVars, ppVars, pvVars, exVars>>
notEx  == <<sanVars, wkVars, appVars, mmOther, clVars, ppVars, pvVars, stVars>>

-----------------------------------------------------------------------------
(* Bounds *)

\* longest rawHtml handed to sanitizeHtml, in tokens
MaxHtmlLen == 4
\* longest markdown text, in characters
MaxTextLen == 6
\* most child elements of a container given to renderMermaidDiagrams
MaxBlocks == 3
\* most blockquotes in a container given to transformCallouts
MaxQuotes == 2
\* most elements of the HTML given to the preview
MaxDocLen == 2
\* most runs of the preview's post-process effect
MaxUpdates == 2
\* edits the user makes in one run of the App
MaxEdits == 3
\* ms by which the clock advances at most in one step
TimeStep == 100

-----------------------------------------------------------------------------
(* Program constants *)

DEBOUNCE_MS == 300

-----------------------------------------------------------------------------
(* Sequence helpers *)

RECURSIVE SeqsUpTo(_, _)
SeqsUpTo(S, n) ==
  IF n = 0 THEN {<<>>}
  ELSE LET shorter == SeqsUpTo(S, n - 1)
       IN  shorter \cup {Append(s, x) : s \in {t \in shorter : Len(t) = n - 1}, x \in S}

Range(s) == {s[i] : i \in 1..Len(s)}

\* s[from..] as a sequence
Drop(s, k) == SubSeq(s, k + 1, Len(s))
Take(s, k) == SubSeq(s, 1, k)

\* whether part occurs in s as a contiguous run
Occurs(part, s) ==
  \E i \in 0..(Len(s) - Len(part)) : SubSeq(s, i + 1, i + Len(part)) = part

\* number of positions of s holding x
Count(x, s) == Cardinality({i \in 1..Len(s) : s[i] = x})

-----------------------------------------------------------------------------
(* sanitizeHtml: the HTML token alphabet *)

\* pre/code openings with class language-mermaid and language-math math-display:
\* the openings the protect regex matches; language-js is one it does not match.
OPEN_MERMAID == "<pre><code class=language-mermaid>"
OPEN_MATH    == "<pre><code class=language-math math-display>"
OPEN_JS      == "<pre><code class=language-js>"
CLOSE        == "</code></pre>"
SCRIPT       == "<script>alert(1)</script>"
IMG_ONERROR  == "<img src=x onerror=alert(1)>"
IMG_CLEAN    == "<img src=x>"
ARROW        == "-->"
ARROW_ESC    == "--&gt;"
TXT          == "txt"
DOLLAR       == "$"
DOLLAR2      == "$$"
DOLLAR_AMP   == "$&"
DOLLAR_1     == "$1"

\* the placeholder div carrying data-protected = __PROTECTED_BLOCK_n__ (lines 77, 81)
PlaceholderNames == <<"<div data-protected=__PROTECTED_BLOCK_0__></div>",
                      "<div data-protected=__PROTECTED_BLOCK_1__></div>",
                      "<div data-protected=__PROTECTED_BLOCK_2__></div>",
                      "<div data-protected=__PROTECTED_BLOCK_3__></div>">>
PlaceholderDiv(n) == PlaceholderNames[n + 1]

ProtectedOpen == {OPEN_MERMAID, OPEN_MATH}

\* what a caller can hand to sanitizeHtml
HtmlAlphabet == {TXT, SCRIPT, IMG_ONERROR, OPEN_MERMAID, OPEN_MATH, OPEN_JS, CLOSE,
                 ARROW, DOLLAR2, DOLLAR_AMP, DOLLAR_1, PlaceholderDiv(0)}

RawHtmlInputs == SeqsUpTo(HtmlAlphabet, MaxHtmlLen)

-----------------------------------------------------------------------------
\* sanitizeHtml step 1: rawHtml.replace(regex, callback) with the global regex
\* that matches a pre/code opening whose class is language-mermaid or language-math...,
\* then lazily any content, then the closing /code /pre: leftmost match, shortest
\* content, and the scan goes on after each match.

\* position of the first CLOSE after position i, or 0
FirstCloseAfter(s, i) ==
  LET js == {j \in (i + 1)..Len(s) : s[j] = CLOSE}
  IN  IF js = {} THEN 0 ELSE CHOOSE j \in js : \A k \in js : j <= k

\* the scan: out is protectedHtml so far, map the placeholders so far (insertion
\* order), counter the callback's counter.
RECURSIVE ProtectScan(_, _, _, _)
ProtectScan(s, i, out, map) ==
  IF i > Len(s) THEN [protectedHtml |-> out, placeholders |-> map]
  ELSE LET j == FirstCloseAfter(s, i)
       IN  IF s[i] \in ProtectedOpen /\ j # 0
           THEN LET counter == Len(map)
                    id == PlaceholderDiv(counter)
                    original == SubSeq(s, i, j)
                IN  ProtectScan(s, j + 1, Append(out, id),
                                Append(map, [id |-> id, original |-> original]))
           ELSE ProtectScan(s, i + 1, Append(out, s[i]), map)

ProtectBlocks(rawHtml) == ProtectScan(rawHtml, 1, <<>>, <<>>)

-----------------------------------------------------------------------------
(* sanitizeHtml step 2: DOMPurify.sanitize(protectedHtml, {ADD_TAGS, ADD_ATTR}).
   The library parses the string into a tree, drops script elements and event
   handler attributes, keeps div and data-* attributes, and serializes the tree:
   text is serialized with > escaped, an unclosed element is closed and a stray
   end tag is dropped. *)

PurifyToken(t) ==
  CASE t = SCRIPT      -> <<>>
    [] t = IMG_ONERROR -> <<IMG_CLEAN>>
    [] t = ARROW       -> <<ARROW_ESC>>
    [] OTHER           -> <<t>>

RECURSIVE PurifyScan(_, _, _, _)
PurifyScan(s, i, depth, out) ==
  IF i > Len(s) THEN out \o [k \in 1..depth |-> CLOSE]
  ELSE IF s[i] \in {OPEN_MERMAID, OPEN_MATH, OPEN_JS}
       THEN PurifyScan(s, i + 1, depth + 1, Append(out, s[i]))
  ELSE IF s[i] = CLOSE
       THEN IF depth > 0 THEN PurifyScan(s, i + 1, depth - 1, Append(out, CLOSE))
                         ELSE PurifyScan(s, i + 1, depth, out)
  ELSE PurifyScan(s, i + 1, depth, out \o PurifyToken(s[i]))

DOMPurifySanitize(html) == PurifyScan(html, 1, 0, <<>>)

-----------------------------------------------------------------------------
(* sanitizeHtml step 3: clean = clean.replace(placeholder div of id, original)
   for each entry, in insertion order.  String.prototype.replace with a
   string pattern replaces the FIRST occurrence only, and expands the replacement
   patterns of the replacement string: $$ is $, $& is the matched text; $1 stays
   as written because a string pattern has no capture groups. *)

GetSubstitutionToken(t, matched) ==
  CASE t = DOLLAR2    -> DOLLAR
    [] t = DOLLAR_AMP -> matched
    [] OTHER          -> t

GetSubstitution(replacement, matched) ==
  [k \in 1..Len(replacement) |-> GetSubstitutionToken(replacement[k], matched)]

\* position of the first occurrence of token pat in s, or 0
IndexOf(s, pat) ==
  LET is == {i \in 1..Len(s) : s[i] = pat}
  IN  IF is = {} THEN 0 ELSE CHOOSE i \in is : \A k \in is : i <= k

StringReplace(s, pat, replacement) ==
  LET i == IndexOf(s, pat)
  IN  IF i = 0 THEN s
      ELSE Take(s, i - 1) \o GetSubstitution(replacement, pat) \o Drop(s, i)

RECURSIVE RestoreBlocks(_, _, _)
RestoreBlocks(clean, map, k) ==
  IF k > Len(map) THEN clean
  ELSE RestoreBlocks(StringReplace(clean, map[k].id, map[k].original), map, k + 1)

\* the whole call in a document-bearing environment: every intermediate value
sanitizeHtmlRun(rawHtml) ==
  LET p     == ProtectBlocks(rawHtml)
      clean == DOMPurifySanitize(p.protectedHtml)
  IN  [protectedHtml |-> p.protectedHtml,
       placeholders  |-> p.placeholders,
       clean         |-> clean,
       out           |-> RestoreBlocks(clean, p.placeholders, 1)]

\* the no-window passthrough of line 67: nothing is protected, cleaned or restored
PassthroughRun(rawHtml) ==
  [protectedHtml |-> rawHtml, placeholders |-> <<>>, clean |-> rawHtml, out |-> rawHtml]

sanitizeHtmlIn(hasWindow, rawHtml) ==
  IF ~hasWindow THEN PassthroughRun(rawHtml) ELSE sanitizeHtmlRun(rawHtml)

\* sanitizeHtml as the App calls it, on the main thread
sanitizeHtml(rawHtml) == sanitizeHtmlIn(TRUE, rawHtml).out

NoRun == [protectedHtml |-> <<>>, placeholders |-> <<>>, clean |-> <<>>, out |-> <<>>]

SanIdle ==
  /\ sanIn = <<>>
  /\ sanWindow = TRUE
  /\ sanPc = "off"
  /\ sanRun = NoRun

SanInit ==
  /\ sanIn \in RawHtmlInputs
  /\ sanWindow \in BOOLEAN
  /\ sanPc = "call"
  /\ sanRun = NoRun

CallSanitizeHtml ==
  /\ sanPc = "call"
  /\ sanRun' = sanitizeHtmlIn(sanWindow, sanIn)
  /\ sanPc' = "done"
  /\ UNCHANGED <<sanIn, sanWindow>>
  /\ UNCHANGED notSan


-----------------------------------------------------------------------------
(* Claims about sanitizeHtml *)

SanReturned == sanPc = "done" /\ sanWindow

\* C1: in a document-bearing environment the string sanitizeHtml returns holds no
\* script element and no event-handler attribute, wherever they were in the input,
\* inside a protected mermaid/math block included.
C1_NoScriptSurvives ==
  SanReturned => /\ SCRIPT \notin Range(sanRun.out)
                 /\ IMG_ONERROR \notin Range(sanRun.out)

\* C2: protect/restore is lossless: every block the protect step extracted occurs
\* in the returned string token for token, whatever its content.
C2_RestoreLossless ==
  SanReturned =>
    \A k \in 1..Len(sanRun.placeholders) :
      Occurs(sanRun.placeholders[k].original, sanRun.out)

\* The reference for C3: the protect step with markers no input can contain, and a
\* restore that puts each original (expanded as the code's replace expands it)
\* where its own marker stands.
RECURSIVE RefProtectScan(_, _, _, _)
RefProtectScan(s, i, out, map) ==
  IF i > Len(s) THEN [protectedHtml |-> out, placeholders |-> map]
  ELSE LET j == FirstCloseAfter(s, i)
       IN  IF s[i] \in ProtectedOpen /\ j # 0
           THEN RefProtectScan(s, j + 1, Append(out, "#" \o ToString(Len(map))),
                               Append(map, SubSeq(s, i, j)))
           ELSE RefProtectScan(s, i + 1, Append(out, s[i]), map)

RECURSIVE RefRestore(_, _, _)
RefRestore(clean, map, i) ==
  IF i > Len(clean) THEN <<>>
  ELSE LET hits == {k \in 1..Len(map) : clean[i] = "#" \o ToString(k - 1)}
       IN  (IF hits = {} THEN <<clean[i]>>
            ELSE LET k == CHOOSE h \in hits : TRUE
                 IN  GetSubstitution(map[k], PlaceholderDiv(k - 1)))
           \o RefRestore(clean, map, i + 1)

RestoredInPlace(rawHtml) ==
  LET p == RefProtectScan(rawHtml, 1, <<>>, <<>>)
  IN  RefRestore(DOMPurifySanitize(p.protectedHtml), p.placeholders, 1)

\* C3: every placeholder has one entry under a key of its own, every entry is
\* restored once where its own placeholder stands, and the returned string holds
\* no placeholder the call generated (none beyond the placeholder-like text the
\* input itself carried), also when the input holds a placeholder's text.
C3_PlaceholdersConsumed ==
  SanReturned =>
    LET map == sanRun.placeholders
    IN  /\ \A k, l \in 1..Len(map) : map[k].id = map[l].id => k = l
        /\ \A k \in 1..Len(map) : Count(map[k].id, sanRun.protectedHtml) >= 1
        /\ \A k \in 1..Len(map) : Count(map[k].id, sanRun.out) <= Count(map[k].id, sanIn)
        /\ sanRun.out = RestoredInPlace(sanIn)

-----------------------------------------------------------------------------
(* Markdown text: a sequence of characters *)

EQ == "="
NL == "\n"
MarkdownChars == {EQ, "a", NL}
MARK_OPEN  == "<mark>"
MARK_CLOSE == "</mark>"

Texts == SeqsUpTo(MarkdownChars, MaxTextLen)

-----------------------------------------------------------------------------
\* preprocessMarkdown (markdownParser:11-16, markdownEngine.ts:49-54):
\* markdown.replace(regex, '<mark>$1</mark>') with the global regex
\*   ==  ( (?: [^=] | =[^=] )+? )  ==
\* A unit of the group is one character that is not =, or = followed by one that
\* is not =.  At each position at most one alternative applies, and the lazy +?
\* tries the closing == after every unit before it takes another.

\* a unit that is one character other than = and nothing else
UnitEndWithoutSingleEq(s, p) ==
  IF p > Len(s) THEN 0
  ELSE IF s[p] # EQ THEN p + 1
  ELSE 0

\* the position after one unit starting at p, or 0 when no unit matches there
UnitEnd(s, p) ==
  IF p > Len(s) THEN 0
  ELSE IF s[p] # EQ THEN p + 1
  ELSE IF p + 1 <= Len(s) /\ s[p + 1] # EQ THEN p + 2
  ELSE 0

IsDoubleEq(s, p) == p + 1 <= Len(s) /\ s[p] = EQ /\ s[p + 1] = EQ

\* p stands after at least one unit: the position of the closing ==, or 0
RECURSIVE LazyClose(_, _)
LazyClose(s, p) ==
  IF IsDoubleEq(s, p) THEN p
  ELSE LET q == UnitEnd(s, p)
       IN  IF q = 0 THEN 0 ELSE LazyClose(s, q)

\* the match starting at i: the position of its closing ==, or 0 for no match
HighlightMatch(s, i) ==
  IF ~IsDoubleEq(s, i) THEN 0
  ELSE LET q == UnitEnd(s, i + 2)
       IN  IF q = 0 THEN 0 ELSE LazyClose(s, q)

RECURSIVE PreprocessScan(_, _)
PreprocessScan(s, i) ==
  IF i > Len(s) THEN <<>>
  ELSE LET c == HighlightMatch(s, i)
       IN  IF c # 0
           THEN <<MARK_OPEN>> \o SubSeq(s, i + 2, c - 1) \o <<MARK_CLOSE>>
                \o PreprocessScan(s, c + 2)
           ELSE <<s[i]>> \o PreprocessScan(s, i + 1)

preprocessMarkdown(markdown) == PreprocessScan(markdown, 1)

-----------------------------------------------------------------------------
(* parseMarkdown (markdownParser:25-56) *)

\* the modules parseMarkdown loads with await import(...), in order (lines 29-35)
ImportStages == <<"unified", "remark-parse", "remark-gfm", "remark-math",
                  "remark-rehype", "rehype-highlight", "rehype-stringify">>

\* what a stage can throw: the message of the Error
FailureMessages == {"Failed to fetch dynamically imported module", "Cannot process"}

\* String(file) of the unified chain for plain inline text (lines 37-48): the text
\* becomes a paragraph.  remark-rehype keeps inline HTML as a raw node
\* (allowDangerousHtml: true), and rehype-stringify, which is given no such option,
\* writes a raw node as text with its < encoded.
StringifyToken(t) ==
  CASE t = MARK_OPEN  -> "&#x3C;mark>"
    [] t = MARK_CLOSE -> "&#x3C;/mark>"
    [] OTHER          -> t

UnifiedProcess(content) ==
  <<"<p>">> \o [k \in 1..Len(content) |-> StringifyToken(content[k])] \o <<"</p>">>

\* the catch block's return value (lines 52-54)
ErrorFragment(message) ==
  <<"<div style=color: red; border: 1px solid red; padding: 1rem;>",
    "<strong>Processing Error:</strong>", message, "</div>">>

Pending       == [state |-> "pending", value |-> <<>>]
Resolved(v)   == [state |-> "resolved", value |-> v]
Rejected(msg) == [state |-> "rejected", value |-> <<msg>>]

\* a parseMarkdown whose failures escape: no catch block
ParseCatchRethrows(message) == Rejected(message)

\* catch (error) { console.error(...); return `...${error.message}...` }  (lines 49-55)
ParseCatch(message) == Resolved(ErrorFragment(message))

\* parseMarkdown as one value, when no stage throws
parseMarkdown(content) == IF content = <<>> THEN <<>> ELSE UnifiedProcess(content)

-----------------------------------------------------------------------------
(* The worker's message handler (markdown.worker.ts:22-36), one message *)

\* e.data that is not a string
NotAString == <<"[object Object]">>
IsString(data) == data \in Texts

WkIdle ==
  /\ wkData = <<>>
  /\ wkPc = "off"
  /\ wkStage = 0
  /\ wkPromise = Pending
  /\ wkPosted = <<>>
  /\ wkThrown = ""

WkInit ==
  /\ wkData \in Texts \cup {NotAString}
  /\ wkPc = "message"
  /\ wkStage = 0
  /\ wkPromise = Pending
  /\ wkPosted = <<>>
  /\ wkThrown = ""

\* lines 23-31 and parseMarkdown to its first await (markdownParser:26-29)
WkOnMessage ==
  /\ wkPc = "message"
  /\ IF ~IsString(wkData)
     THEN wkPc' = "returned" /\ UNCHANGED <<wkStage, wkPromise>>
     ELSE IF wkData = <<>>
     THEN wkPc' = "settled" /\ wkPromise' = Resolved(<<>>) /\ UNCHANGED wkStage
     ELSE wkPc' = "import" /\ wkStage' = 1 /\ UNCHANGED wkPromise
  /\ UNCHANGED <<wkData, wkPosted, wkThrown>>
  /\ UNCHANGED notWk

\* one await import(...) resolves (markdownParser:29-35)
WkImportLoaded ==
  /\ wkPc = "import"
  /\ IF wkStage < Len(ImportStages)
     THEN wkStage' = wkStage + 1 /\ wkPc' = "import"
     ELSE wkStage' = 0 /\ wkPc' = "process"
  /\ UNCHANGED <<wkData, wkPromise, wkPosted, wkThrown>>
  /\ UNCHANGED notWk

\* one await import(...) rejects: control goes to the catch block
WkImportThrows ==
  /\ wkPc = "import"
  /\ \E m \in FailureMessages : wkPromise' = ParseCatch(m) /\ wkThrown' = m
  /\ wkPc' = "settled"
  /\ wkStage' = 0
  /\ UNCHANGED <<wkData, wkPosted>>
  /\ UNCHANGED notWk

\* await unified()...process(content) resolves; return String(file)  (lines 37-48)
WkProcessDone ==
  /\ wkPc = "process"
  /\ wkPromise' = Resolved(UnifiedProcess(wkData))
  /\ wkPc' = "settled"
  /\ UNCHANGED <<wkData, wkStage, wkPosted, wkThrown>>
  /\ UNCHANGED notWk

\* a plugin of the chain throws: control goes to the catch block
WkProcessThrows ==
  /\ wkPc = "process"
  /\ \E m \in FailureMessages : wkPromise' = ParseCatch(m) /\ wkThrown' = m
  /\ wkPc' = "settled"
  /\ UNCHANGED <<wkData, wkStage, wkPosted>>
  /\ UNCHANGED notWk

\* the handler resumes after await parseMarkdown(content)  (worker lines 31-35)
WkPostMessage ==
  /\ wkPc = "settled"
  /\ wkPosted' = Append(wkPosted,
        IF wkPromise.state = "resolved"
        THEN [type |-> "success", body |-> wkPromise.value]
        ELSE [type |-> "error", body |-> wkPromise.value])
  /\ wkPc' = "returned"
  /\ UNCHANGED <<wkData, wkStage, wkPromise, wkThrown>>
  /\ UNCHANGED notWk

WkNext ==
  \/ WkOnMessage
  \/ WkImportLoaded
  \/ WkImportThrows
  \/ WkProcessDone
  \/ WkProcessThrows
  \/ WkPostMessage

\* C4: parseMarkdown never rejects: its promise resolves to a string; when a stage
\* (loading one included) throws, the value is the styled error fragment holding the
\* failure message; for empty input it is the empty string; and the worker answers
\* a string request with a success response.
C4_ParseNeverRejects ==
  /\ wkPromise.state # "rejected"
  /\ wkPc \in {"settled", "returned"} /\ IsString(wkData) =>
       /\ wkPromise.state = "resolved"
       /\ wkThrown # "" =>
            /\ wkPromise.value = ErrorFragment(wkThrown)
            /\ wkThrown \in Range(wkPromise.value)
       /\ wkData = <<>> => wkPromise.value = <<>>
  /\ wkPc = "returned" /\ IsString(wkData) =>
       wkPosted = <<[type |-> "success", body |-> wkPromise.value]>>

\* C4 witness: a stage threw, and the handler answered with a success response
\* that carries the error fragment.
C4_Witness ==
  /\ wkPc = "returned"
  /\ wkThrown # ""
  /\ Len(wkPosted) = 1
  /\ wkPosted[1].type = "success"
  /\ wkPosted[1].body = ErrorFragment(wkThrown)


-----------------------------------------------------------------------------
(* The App component: parse dispatch, debounce, worker and fallback paths *)

Min(a, b) == IF a < b THEN a ELSE b

HighlightedA == <<EQ, EQ, "a", EQ, EQ>>

\* a text with an arrow: the parser writes its > as it is, DOMPurify
\* serializes it escaped
ArrowText == <<"a", ARROW>>

\* the source texts the editor holds in a run
AppTexts == {<<>>, <<"a">>, HighlightedA, ArrowText}

NothingShown == [path |-> "none", text |-> <<>>]

AppIdle ==
  /\ appPc = "off"
  /\ markdownInput = <<>>
  /\ mountText = <<>>
  /\ htmlOutput = <<>>
  /\ isProcessing = FALSE
  /\ usingFallback = FALSE
  /\ workerRef = "none"
  /\ timers = {}
  /\ sinceEdit = 0
  /\ wInbox = <<>>
  /\ wWaiting = <<>>
  /\ wLoaded = FALSE
  /\ responses = <<>>
  /\ mWaiting = <<>>
  /\ mLoaded = FALSE
  /\ edits = 0
  /\ burstLen = 0
  /\ debounced = 0
  /\ lastTimerText = <<>>
  /\ shown = NothingShown

\* the state after the first render: useState initial values (part_007:90-98),
\* markdownInput from local storage
AppInit ==
  /\ appPc = "mounting"
  /\ markdownInput \in AppTexts
  /\ mountText = markdownInput
  /\ htmlOutput = <<>>
  /\ isProcessing = FALSE
  /\ usingFallback = FALSE
  /\ workerRef = "none"
  /\ timers = {}
  /\ sinceEdit = 0
  /\ wInbox = <<>>
  /\ wWaiting = <<>>
  /\ wLoaded = FALSE
  /\ responses = <<>>
  /\ mWaiting = <<>>
  /\ mLoaded = FALSE
  /\ edits = 0
  /\ burstLen = 0
  /\ debounced = 0
  /\ lastTimerText = <<>>
  /\ shown = NothingShown

\* the main-thread path with setHtmlOutput(rawHtml): the parser output displayed
\* as it is
MainThreadHtmlUnsanitized(content) == parseMarkdown(preprocessMarkdown(content))

\* what the main-thread path computes for a text (part_007:166-168)
MainThreadHtml(content) == sanitizeHtml(parseMarkdown(preprocessMarkdown(content)))

\* what the worker path computes for a text: the worker parses e.data as it is
\* (markdown.worker.ts:31), the App sanitizes the response (part_007:189)
WorkerPathHtml(content) == sanitizeHtml(parseMarkdown(content))

\* processOnMainThread(content) (part_007:163-175) up to its first real suspension:
\* setIsProcessing(true), preprocess, await parseMarkdown.  parseMarkdown suspends
\* across tasks only while its dynamic imports load; for empty content, or once the
\* modules are loaded, the call runs to its finally block before any other event.
ProcessOnMainThread(content) ==
  IF preprocessMarkdown(content) = <<>> \/ mLoaded
  THEN /\ htmlOutput' = MainThreadHtml(content)
       /\ isProcessing' = FALSE
       /\ shown' = [path |-> "main", text |-> content]
       /\ UNCHANGED mWaiting
  ELSE /\ isProcessing' = TRUE
       /\ mWaiting' = Append(mWaiting, content)
       /\ UNCHANGED <<htmlOutput, shown>>

\* setIsProcessing(true); workerRef.current.postMessage(markdownInput)
PostToWorker(content) ==
  /\ isProcessing' = TRUE
  /\ wInbox' = Append(wInbox, content)

\* clearTimeout without effect: the earlier timers stay pending
clearTimeoutForgotten(pending) == pending

\* clearTimeout(debounceTimer.current) of the effect and of its cleanup
\* (part_007:222-224, 235-237): the one pending timer is cancelled
clearTimeout(pending) == {}

\* setTimeout(callback, DEBOUNCE_MS), the callback closing over this render's text
SetDebounceTimer(pending, text) ==
  pending \cup {[remaining |-> DEBOUNCE_MS, text |-> text]}

\* The effects of the first commit, in order: the worker effect (part_007:178-218),
\* whose new Worker(...) succeeds, and the debounce effect (221-238).
MountWithWorker ==
  /\ appPc = "mounting"
  /\ appPc' = "running"
  /\ workerRef' = "alive"
  /\ PostToWorker(markdownInput)
  /\ timers' = SetDebounceTimer(clearTimeout(timers), markdownInput)
  /\ UNCHANGED <<markdownInput, mountText, htmlOutput, usingFallback, sinceEdit, wWaiting,
                 wLoaded, responses, mWaiting, mLoaded, edits, burstLen, debounced,
                 lastTimerText, shown>>
  /\ UNCHANGED notApp

\* The same with new Worker(...) throwing: the catch block (208-212)
MountWithoutWorker ==
  /\ appPc = "mounting"
  /\ appPc' = "running"
  /\ usingFallback' = TRUE
  /\ ProcessOnMainThread(markdownInput)
  /\ timers' = SetDebounceTimer(clearTimeout(timers), markdownInput)
  /\ UNCHANGED <<markdownInput, mountText, workerRef, sinceEdit, wInbox, wWaiting, wLoaded,
                 responses, mLoaded, edits, burstLen, debounced, lastTimerText>>
  /\ UNCHANGED notApp

\* The user changes the text: setMarkdownInput, re-render, and the debounce effect
\* runs again (cleanup 235-237, then 221-233).
Edit ==
  /\ appPc = "running"
  /\ edits < MaxEdits
  /\ \E t \in AppTexts \ {markdownInput} : markdownInput' = t
  /\ timers' = SetDebounceTimer(clearTimeout(timers), markdownInput')
  /\ sinceEdit' = 0
  /\ edits' = edits + 1
  /\ burstLen' = IF burstLen > 0 /\ sinceEdit < DEBOUNCE_MS THEN burstLen + 1 ELSE 1
  /\ debounced' = 0
  /\ UNCHANGED <<appPc, mountText, htmlOutput, isProcessing, usingFallback, workerRef,
                 wInbox, wWaiting, wLoaded, responses, mWaiting, mLoaded, lastTimerText,
                 shown>>
  /\ UNCHANGED notApp

\* Time passes, never beyond the moment a pending timer is due.
Tick ==
  /\ appPc = "running"
  /\ timers # {}
  /\ \A tm \in timers : tm.remaining > 0
  /\ LET due == CHOOSE r \in {tm.remaining : tm \in timers} :
                  \A tm \in timers : r <= tm.remaining
         d   == Min(TimeStep, due)
     IN  /\ timers' = {[tm EXCEPT !.remaining = tm.remaining - d] : tm \in timers}
         /\ sinceEdit' = Min(sinceEdit + d, DEBOUNCE_MS)
  /\ UNCHANGED <<appPc, markdownInput, mountText, htmlOutput, isProcessing, usingFallback,
                 workerRef, wInbox, wWaiting, wLoaded, responses, mWaiting, mLoaded, edits,
                 burstLen, debounced, lastTimerText, shown>>
  /\ UNCHANGED notApp

\* A debounce timer is due: its callback (part_007:226-233)
TimerFires ==
  /\ appPc = "running"
  /\ \E tm \in timers :
       /\ tm.remaining = 0
       /\ timers' = timers \ {tm}
       /\ lastTimerText' = tm.text
       /\ IF usingFallback
          THEN /\ ProcessOnMainThread(tm.text)
               /\ debounced' = debounced + 1
               /\ UNCHANGED wInbox
          ELSE IF workerRef # "none"
          THEN /\ PostToWorker(tm.text)
               /\ debounced' = debounced + 1
               /\ UNCHANGED <<htmlOutput, shown, mWaiting>>
          ELSE UNCHANGED <<isProcessing, wInbox, htmlOutput, shown, mWaiting, debounced>>
  /\ UNCHANGED <<appPc, markdownInput, mountText, usingFallback, workerRef, sinceEdit,
                 wWaiting, wLoaded, responses, mLoaded, edits, burstLen>>
  /\ UNCHANGED notApp

\* The worker takes the next message (markdown.worker.ts:22-32).  parseMarkdown
\* returns at once for empty content and, once the modules are loaded, without
\* suspending across tasks; otherwise the handler stays suspended in the imports.
WorkerReceives ==
  /\ workerRef = "alive"
  /\ wInbox # <<>>
  /\ LET content == Head(wInbox)
     IN  IF content = <<>> \/ wLoaded
         THEN /\ responses' = Append(responses, [type |-> "success",
                                                 html |-> parseMarkdown(content),
                                                 text |-> content])
              /\ UNCHANGED wWaiting
         ELSE /\ wWaiting' = Append(wWaiting, content)
              /\ UNCHANGED responses
  /\ wInbox' = Tail(wInbox)
  /\ UNCHANGED <<appPc, markdownInput, mountText, htmlOutput, isProcessing, usingFallback,
                 workerRef, timers, sinceEdit, wLoaded, mWaiting, mLoaded, edits, burstLen,
                 debounced, lastTimerText, shown>>
  /\ UNCHANGED notApp

\* The worker's dynamic imports finish: the suspended handlers resume in the order
\* they suspended, and each posts its response (markdown.worker.ts:31-32).
WorkerModulesLoaded ==
  /\ workerRef = "alive"
  /\ ~wLoaded
  /\ wWaiting # <<>>
  /\ wLoaded' = TRUE
  /\ responses' = responses \o [k \in 1..Len(wWaiting) |->
                    [type |-> "success", html |-> parseMarkdown(wWaiting[k]),
                     text |-> wWaiting[k]]]
  /\ wWaiting' = <<>>
  /\ UNCHANGED <<appPc, markdownInput, mountText, htmlOutput, isProcessing, usingFallback,
                 workerRef, timers, sinceEdit, wInbox, mWaiting, mLoaded, edits, burstLen,
                 debounced, lastTimerText, shown>>
  /\ UNCHANGED notApp

\* workerRef.current.onmessage (part_007:186-196).  The worker posts no message of
\* type error (parseMarkdown never rejects), so the success branch is the one taken.
AppOnMessage ==
  /\ appPc = "running"
  /\ responses # <<>>
  /\ LET msg == Head(responses)
     IN  IF msg.type = "success"
         THEN /\ htmlOutput' = sanitizeHtml(msg.html)
              /\ shown' = [path |-> "worker", text |-> msg.text]
         ELSE UNCHANGED <<htmlOutput, shown>>
  /\ isProcessing' = FALSE
  /\ responses' = Tail(responses)
  /\ UNCHANGED <<appPc, markdownInput, mountText, usingFallback, workerRef, timers,
                 sinceEdit, wInbox, wWaiting, wLoaded, mWaiting, mLoaded, edits, burstLen,
                 debounced, lastTimerText>>
  /\ UNCHANGED notApp

\* The main thread's dynamic imports finish: the suspended processOnMainThread calls
\* resume in order, each setting htmlOutput and, in finally, isProcessing (166-174).
MainModulesLoaded ==
  /\ appPc = "running"
  /\ ~mLoaded
  /\ mWaiting # <<>>
  /\ mLoaded' = TRUE
  /\ htmlOutput' = MainThreadHtml(mWaiting[Len(mWaiting)])
  /\ shown' = [path |-> "main", text |-> mWaiting[Len(mWaiting)]]
  /\ isProcessing' = FALSE
  /\ mWaiting' = <<>>
  /\ UNCHANGED <<appPc, markdownInput, mountText, usingFallback, workerRef, timers,
                 sinceEdit, wInbox, wWaiting, wLoaded, responses, edits, burstLen,
                 debounced, lastTimerText>>
  /\ UNCHANGED notApp

\* workerRef.current.onerror (part_007:198-203): the worker failed at runtime and
\* handles nothing from here on; the handler closes over the mount's markdownInput.
WorkerRuntimeError ==
  /\ appPc = "running"
  /\ workerRef = "alive"
  /\ workerRef' = "dead"
  /\ usingFallback' = TRUE
  /\ ProcessOnMainThread(mountText)
  /\ UNCHANGED <<appPc, markdownInput, mountText, timers, sinceEdit, wInbox, wWaiting,
                 wLoaded, responses, mLoaded, edits, burstLen, debounced, lastTimerText>>
  /\ UNCHANGED notApp

Next ==
  \/ MountWithWorker
  \/ MountWithoutWorker
  \/ Edit
  \/ Tick
  \/ TimerFires
  \/ WorkerReceives
  \/ WorkerModulesLoaded
  \/ AppOnMessage
  \/ MainModulesLoaded
  \/ WorkerRuntimeError

-----------------------------------------------------------------------------
(* Claims about the App's parse dispatch *)

\* every dispatched parse request has been answered and none is pending
AllAnswered ==
  /\ appPc = "running"
  /\ timers = {}
  /\ wInbox = <<>>
  /\ wWaiting = <<>>
  /\ responses = <<>>
  /\ mWaiting = <<>>

\* C5: once every dispatched parse request has been answered, the displayed HTML is
\* the sanitized parse of the latest source text (by the worker path or by the
\* main-thread path), whatever the order in which the responses arrived: no
\* response to an older text stays displayed.
C5_LatestTextDisplayed ==
  AllAnswered => htmlOutput \in {WorkerPathHtml(markdownInput), MainThreadHtml(markdownInput)}

\* C6: source changes are debounced.  While less than DEBOUNCE_MS have passed since
\* the last edit, the debounce effect has dispatched no parse request for it; it
\* dispatches at most one per burst, that one exactly DEBOUNCE_MS after the last
\* edit of the burst and carrying the text of that edit; and when no timer is
\* pending any more, exactly one has been dispatched.
C6_Debounced ==
  appPc = "running" =>
    /\ sinceEdit < DEBOUNCE_MS => debounced = 0
    /\ debounced <= 1
    /\ debounced = 1 => lastTimerText = markdownInput /\ sinceEdit = DEBOUNCE_MS
    /\ timers = {} => debounced = 1

\* C6 witness: a burst of at least three edits, each less than DEBOUNCE_MS after
\* the one before, has ended and its single dispatch carried the last text.
C6_Witness ==
  /\ burstLen >= 3
  /\ timers = {}
  /\ debounced = 1
  /\ lastTimerText = markdownInput
  /\ lastTimerText # mountText

\* C7: the worker path and the main-thread fallback give the same HTML for the same
\* source text: what the worker path displays for a text is what
\* processOnMainThread displays for it, highlight syntax included.
C7_WorkerEqualsFallback ==
  shown.path = "worker" => htmlOutput = MainThreadHtml(shown.text)

\* what the parser returns for the texts of a run: parseMarkdown of the text as
\* the worker receives it and of the preprocessed text of the main thread
ParserOutputs ==
  {parseMarkdown(t) : t \in AppTexts} \cup {parseMarkdown(preprocessMarkdown(t)) : t \in AppTexts}

\* C27: every value the displayed HTML takes is a return value of sanitizeHtml
\* for a parser output, on the worker path and on the main-thread path alike:
\* from the empty initial value on, a step changes htmlOutput only to
\* sanitizeHtml of something the parser returned.
C27_DisplayedHtmlSanitized ==
  htmlOutput = <<>> \/ htmlOutput \in {sanitizeHtml(raw) : raw \in ParserOutputs}

\* C27 witness: after a worker runtime error the main-thread path displays the
\* text with the arrow, and what is displayed differs from the parser output
C27_Witness ==
  /\ shown = [path |-> "main", text |-> ArrowText]
  /\ usingFallback
  /\ htmlOutput # parseMarkdown(preprocessMarkdown(ArrowText))
  /\ Occurs(<<ARROW_ESC>>, htmlOutput)

\* a dispatched parse request has not been answered yet: it waits in the inbox
\* of the living worker or in the worker's imports, its response waits for
\* onmessage, or a processOnMainThread call is suspended in parseMarkdown
RequestInFlight ==
  \/ workerRef = "alive" /\ (wInbox # <<>> \/ wWaiting # <<>>)
  \/ responses # <<>>
  \/ mWaiting # <<>>

\* C28: whenever the processing indicator isProcessing is false, no parse
\* request is in flight: it is true from every dispatch until every dispatched
\* request has been answered.
C28_IdleMeansNothingInFlight ==
  appPc = "running" /\ ~isProcessing => ~RequestInFlight


-----------------------------------------------------------------------------
(* renderMermaidDiagrams (markdownEngine.ts:249-273) *)

\* diagram sources: a diagram, the same with surrounding whitespace, one with a
\* syntax error, whitespace only, and empty
GRAPH      == "graph TD; A-->B"
PADDED     == " graph TD; A-->B\n"
BAD_GRAPH  == "graph TD; A--"
BLANK      == "  \n"
MermaidSources == {GRAPH, PADDED, BAD_GRAPH, BLANK, ""}

\* String.prototype.trim on the sources
MermaidTrim(source) ==
  CASE source = PADDED -> GRAPH
    [] source = BLANK  -> ""
    [] OTHER           -> source

ParseErrorMessage == "Parse error on line 1"

\* mermaid.render(id, text): the svg, or a thrown error for a text mermaid cannot parse
MermaidRender(id, text) ==
  IF text = BAD_GRAPH
  THEN [threw |-> TRUE, message |-> ParseErrorMessage, svg |-> <<>>]
  ELSE [threw |-> FALSE, message |-> "", svg |-> <<"<svg id=mermaid-", id, ">", text, "</svg>">>]

\* elements: tag and class of the element, class of its code child ("" without
\* one), and the text or markup inside
Paragraph         == [tag |-> "p", class |-> "", code |-> "", inner |-> <<"text">>]
InlineMermaidCode == [tag |-> "p", class |-> "", code |-> "language-mermaid", inner |-> <<GRAPH>>]
PreJs             == [tag |-> "pre", class |-> "", code |-> "language-js", inner |-> <<"x = 1">>]
PreMermaid(source) == [tag |-> "pre", class |-> "", code |-> "language-mermaid", inner |-> <<source>>]

MermaidElements == {Paragraph, InlineMermaidCode, PreJs} \cup {PreMermaid(src) : src \in MermaidSources}

\* the wrapper of lines 262-265
MermaidWrapper(svg) == [tag |-> "div", class |-> "mermaid-diagram", code |-> "", inner |-> svg]

MmIdle ==
  /\ mmContainer = <<>>
  /\ mmBlocks = <<>>
  /\ mmIdx = 0
  /\ mmPc = "off"
  /\ mermaidIdCounter = 0
  /\ mmWarned = <<>>
  /\ mmFailed = {}

MmInit ==
  /\ mmContainer \in SeqsUpTo(MermaidElements, MaxBlocks)
  /\ mmBlocks = <<>>
  /\ mmIdx = 0
  /\ mmPc = "call"
  /\ mermaidIdCounter = 0
  /\ mmWarned = <<>>
  /\ mmFailed = {}

\* container.querySelectorAll of code.language-mermaid (line 250)
QueryMermaidBlocks(container) ==
  SelectSeq([k \in 1..Len(container) |-> k],
            LAMBDA k : container[k].code = "language-mermaid")

MmCall ==
  /\ mmPc = "call"
  /\ mmBlocks' = QueryMermaidBlocks(mmContainer)
  /\ mmIdx' = 1
  /\ mmPc' = "loop"
  /\ UNCHANGED <<mmContainer, mermaidIdCounter, mmWarned, mmFailed>>
  /\ UNCHANGED notMm

MmInLoop == mmPc = "loop" /\ mmIdx <= Len(mmBlocks)

MmPre == mmContainer[mmBlocks[mmIdx]]

MmSource == MmPre.inner[1]

\* the two continue statements (lines 254, 257)
MmSkips == MmPre.tag # "pre" \/ MermaidTrim(MmSource) = ""

MmContinue ==
  /\ MmInLoop
  /\ MmSkips
  /\ mmIdx' = mmIdx + 1
  /\ UNCHANGED <<mmContainer, mmBlocks, mmPc, mermaidIdCounter, mmWarned, mmFailed>>
  /\ UNCHANGED notMm

\* lines 259-266, render resolving
MmRendered ==
  /\ MmInLoop
  /\ ~MmSkips
  /\ LET r == MermaidRender(mermaidIdCounter, MermaidTrim(MmSource))
     IN  /\ ~r.threw
         /\ mmContainer' = [mmContainer EXCEPT ![mmBlocks[mmIdx]] = MermaidWrapper(r.svg)]
  /\ mermaidIdCounter' = mermaidIdCounter + 1
  /\ mmIdx' = mmIdx + 1
  /\ UNCHANGED <<mmBlocks, mmPc, mmWarned, mmFailed>>
  /\ UNCHANGED notMm

\* the catch block (lines 267-270): a warning, the tree untouched
MmRenderFailed ==
  /\ MmInLoop
  /\ ~MmSkips
  /\ LET r == MermaidRender(mermaidIdCounter, MermaidTrim(MmSource))
     IN  /\ r.threw
         /\ mmWarned' = Append(mmWarned, r.message)
  /\ mmFailed' = mmFailed \cup {mmBlocks[mmIdx]}
  /\ mermaidIdCounter' = mermaidIdCounter + 1
  /\ mmIdx' = mmIdx + 1
  /\ UNCHANGED <<mmContainer, mmBlocks, mmPc>>
  /\ UNCHANGED notMm

MmReturn ==
  /\ mmPc = "loop"
  /\ mmIdx > Len(mmBlocks)
  /\ mmPc' = "done"
  /\ UNCHANGED <<mmContainer, mmBlocks, mmIdx, mermaidIdCounter, mmWarned, mmFailed>>
  /\ UNCHANGED notMm

NextMermaid ==
  \/ MmCall
  \/ MmContinue
  \/ MmRendered
  \/ MmRenderFailed
  \/ MmReturn

\* C8: after the pass, every mermaid block whose render failed has been replaced:
\* its place holds no pre element with the raw source any more but an element that
\* carries the failure message.
C8_FailedRenderShowsErrorPanel ==
  mmPc = "done" =>
    \A k \in mmFailed :
      /\ mmContainer[k].tag # "pre"
      /\ mmContainer[k].code # "language-mermaid"
      /\ ParseErrorMessage \in Range(mmContainer[k].inner)


-----------------------------------------------------------------------------
(* Callouts: the registry and resolveCalloutType (part_001:106-131),
   transformCallouts (markdownEngine.ts:173-239) *)

SP == " "
TAB == "\t"

LowerLetters == <<"a", "b", "c", "d", "e", "f", "g", "h", "i", "j", "k", "l", "m", "n", "o", "p", "q", "r", "s", "t", "u", "v", "w", "x", "y", "z">>
UpperLetters == <<"A", "B", "C", "D", "E", "F", "G", "H", "I", "J", "K", "L", "M", "N", "O", "P", "Q", "R", "S", "T", "U", "V", "W", "X", "Y", "Z">>
Digits == {"0", "1", "2", "3", "4", "5", "6", "7", "8", "9"}

\* the character classes \s and [\w-] of the regular expressions
IsWs(c) == c \in {SP, NL, TAB}
IsWordChar(c) == c \in Range(LowerLetters) \cup Range(UpperLetters) \cup Digits \cup {"_", "-"}

ToLowerChar(c) ==
  IF c \in Range(UpperLetters)
  THEN LowerLetters[CHOOSE k \in 1..26 : UpperLetters[k] = c]
  ELSE c

ToUpperChar(c) ==
  IF c \in Range(LowerLetters)
  THEN UpperLetters[CHOOSE k \in 1..26 : LowerLetters[k] = c]
  ELSE c

ToLowerCase(str) == [k \in 1..Len(str) |-> ToLowerChar(str[k])]

\* the first position from i on whose character is not whitespace, Len + 1 without one
SkipWs(str, i) ==
  CHOOSE j \in i..(Len(str) + 1) :
    /\ j = Len(str) + 1 \/ ~IsWs(str[j])
    /\ \A k \in i..(j - 1) : IsWs(str[k])

\* the first position from i on whose character is not a word character
WordEnd(str, i) ==
  CHOOSE j \in i..(Len(str) + 1) :
    /\ j = Len(str) + 1 \/ ~IsWordChar(str[j])
    /\ \A k \in i..(j - 1) : IsWordChar(str[k])

\* the first position from i on that holds a newline
LineEnd(str, i) ==
  CHOOSE j \in i..(Len(str) + 1) :
    /\ j = Len(str) + 1 \/ str[j] = NL
    /\ \A k \in i..(j - 1) : str[k] # NL

\* String.prototype.trim
Trim(str) ==
  LET a == SkipWs(str, 1)
  IN  IF a > Len(str) THEN <<>>
      ELSE LET b == CHOOSE j \in a..Len(str) :
                      ~IsWs(str[j]) /\ \A k \in (j + 1)..Len(str) : IsWs(str[k])
           IN  SubSeq(str, a, b)

\* the strings of the registry and of the inputs, character by character
S_note == <<"n", "o", "t", "e">>
S_info == <<"i", "n", "f", "o">>
S_tip == <<"t", "i", "p">>
S_hint == <<"h", "i", "n", "t">>
S_important == <<"i", "m", "p", "o", "r", "t", "a", "n", "t">>
S_warning == <<"w", "a", "r", "n", "i", "n", "g">>
S_caution == <<"c", "a", "u", "t", "i", "o", "n">>
S_attention == <<"a", "t", "t", "e", "n", "t", "i", "o", "n">>
S_danger == <<"d", "a", "n", "g", "e", "r">>
S_error == <<"e", "r", "r", "o", "r">>
S_example == <<"e", "x", "a", "m", "p", "l", "e">>
S_quote == <<"q", "u", "o", "t", "e">>
S_cite == <<"c", "i", "t", "e">>
S_success == <<"s", "u", "c", "c", "e", "s", "s">>
S_check == <<"c", "h", "e", "c", "k">>
S_done == <<"d", "o", "n", "e">>
S_question == <<"q", "u", "e", "s", "t", "i", "o", "n">>
S_faq == <<"f", "a", "q">>
S_help == <<"h", "e", "l", "p">>
S_bug == <<"b", "u", "g">>
S_abstract == <<"a", "b", "s", "t", "r", "a", "c", "t">>
S_summary == <<"s", "u", "m", "m", "a", "r", "y">>
S_tldr == <<"t", "l", "d", "r">>
S_todo == <<"t", "o", "d", "o">>
S_constructor == <<"c", "o", "n", "s", "t", "r", "u", "c", "t", "o", "r">>
S___proto__ == <<"_", "_", "p", "r", "o", "t", "o", "_", "_">>
S_toString == <<"t", "o", "S", "t", "r", "i", "n", "g">>
S_valueOf == <<"v", "a", "l", "u", "e", "O", "f">>
S_hasOwnProperty == <<"h", "a", "s", "O", "w", "n", "P", "r", "o", "p", "e", "r", "t", "y">>
S_NOTE == <<"N", "O", "T", "E">>
S_zz == <<"z", "z">>

\* the registry, in the order of the object literal (part_001:106-119)
CALLOUT_TYPES == <<
  [key |-> S_note, color |-> "#448aff", icon |-> "icon-note", aliases |-> <<S_info>>],
  [key |-> S_tip, color |-> "#00bfa5", icon |-> "icon-tip", aliases |-> <<S_hint>>],
  [key |-> S_important, color |-> "#7c4dff", icon |-> "icon-important", aliases |-> <<>>],
  [key |-> S_warning, color |-> "#ff9100", icon |-> "icon-warning", aliases |-> <<S_caution, S_attention>>],
  [key |-> S_danger, color |-> "#ff1744", icon |-> "icon-danger", aliases |-> <<S_error>>],
  [key |-> S_example, color |-> "#7c4dff", icon |-> "icon-example", aliases |-> <<>>],
  [key |-> S_quote, color |-> "#9e9e9e", icon |-> "icon-quote", aliases |-> <<S_cite>>],
  [key |-> S_success, color |-> "#00c853", icon |-> "icon-success", aliases |-> <<S_check, S_done>>],
  [key |-> S_question, color |-> "#ffab00", icon |-> "icon-question", aliases |-> <<S_faq, S_help>>],
  [key |-> S_bug, color |-> "#ff1744", icon |-> "icon-bug", aliases |-> <<>>],
  [key |-> S_abstract, color |-> "#00bcd4", icon |-> "icon-abstract", aliases |-> <<S_summary, S_tldr>>],
  [key |-> S_todo, color |-> "#448aff", icon |-> "icon-todo", aliases |-> <<>>]
>>

OwnKeys == {CALLOUT_TYPES[k].key : k \in DOMAIN CALLOUT_TYPES}

\* property names every object literal inherits from Object.prototype
ObjectPrototypeKeys == {S_constructor, S___proto__, S_toString, S_valueOf, S_hasOwnProperty}

\* whether CALLOUT_TYPES[name] is truthy: an own entry, or an inherited property
HasTruthyProperty(name) == name \in OwnKeys \cup ObjectPrototypeKeys

\* CALLOUT_TYPES[name] for an own key
OwnDef(name) == CALLOUT_TYPES[CHOOSE k \in DOMAIN CALLOUT_TYPES : CALLOUT_TYPES[k].key = name]

\* resolveCalloutType (part_001:124-131)
resolveCalloutType(raw) ==
  LET lower == Trim(ToLowerCase(raw))
      owners == {k \in DOMAIN CALLOUT_TYPES : lower \in Range(CALLOUT_TYPES[k].aliases)}
  IN  IF HasTruthyProperty(lower) THEN lower
      ELSE IF owners # {}
           THEN CALLOUT_TYPES[CHOOSE k \in owners : \A o \in owners : k <= o].key
           ELSE S_note

\* textContent.match of the callout pattern (markdownEngine.ts:184): optional
\* whitespace, bracket, bang, a run of word characters, closing bracket, optional
\* whitespace (newlines included), then the rest of that line as group 2
CalloutMatch(html) ==
  LET open  == SkipWs(html, 1)
      close == IF open + 1 <= Len(html) THEN WordEnd(html, open + 2) ELSE 0
      ok    == /\ open + 1 <= Len(html)
               /\ html[open] = "[" /\ html[open + 1] = "!"
               /\ close > open + 2
               /\ close <= Len(html)
               /\ html[close] = "]"
      from  == IF ok THEN SkipWs(html, close + 1) ELSE 1
      to    == IF ok THEN LineEnd(html, from) ELSE 1
  IN  IF ok
      THEN [matched |-> TRUE, rawType |-> SubSeq(html, open + 2, close - 1),
            group2 |-> SubSeq(html, from, to - 1), end |-> to]
      ELSE [matched |-> FALSE, rawType |-> <<>>, group2 |-> <<>>, end |-> 1]

\* resolvedType.charAt(0).toUpperCase() + resolvedType.slice(1)
Capitalize(name) ==
  IF name = <<>> THEN <<>> ELSE <<ToUpperChar(name[1])>> \o Tail(name)

\* DOM nodes of a blockquote: text nodes and leaf elements with their innerHTML
TextNode(text) == [tag |-> "#text", html |-> text]
P(html) == [tag |-> "p", html |-> html]
Blockquote(children) == [tag |-> "blockquote", children |-> children]

\* bq.querySelector of p:first-child: the first element child, when it is a p
FirstP(bq) ==
  LET elems == {k \in 1..Len(bq.children) : bq.children[k].tag # "#text"}
  IN  IF elems = {} THEN 0
      ELSE LET first == CHOOSE k \in elems : \A e \in elems : k <= e
           IN  IF bq.children[first].tag = "p" THEN first ELSE 0

\* the child nodes of an element: of a blockquote, and of the content region of
\* a callout (its title row holds two spans and no paragraph)
ChildNodes(node) ==
  IF node.tag = "blockquote" THEN node.children
  ELSE IF node.tag = "div" THEN node.content
  ELSE <<>>

\* querySelector of p:first-child below an element with these child nodes: the
\* first paragraph in document order that is the first element child of its
\* parent, at any depth
RECURSIVE QueryFirstP(_)
QueryFirstP(children) ==
  LET elems == SelectSeq([k \in 1..Len(children) |-> k],
                         LAMBDA k : children[k].tag # "#text")
      Below[j \in 0..Len(elems)] ==
        IF j = 0 THEN [found |-> FALSE, html |-> <<>>]
        ELSE IF Below[j - 1].found THEN Below[j - 1]
        ELSE QueryFirstP(ChildNodes(children[elems[j]]))
  IN  IF elems = <<>> THEN [found |-> FALSE, html |-> <<>>]
      ELSE IF children[elems[1]].tag = "p"
           THEN [found |-> TRUE, html |-> children[elems[1]].html]
           ELSE Below[Len(elems)]

\* settings.calloutColors[resolvedType]: an own override, what the object
\* inherits, or undefined (the empty string)
SettingsColor(calloutColors, name) ==
  IF \E o \in calloutColors : o.key = name
  THEN (CHOOSE o \in calloutColors : o.key = name).color
  ELSE IF name = S_constructor THEN "function Object() { [native code] }"
  ELSE IF name \in ObjectPrototypeKeys THEN "[object Object]"
  ELSE ""

\* the body of the forEach callback (markdownEngine.ts:177-238) for one blockquote
TransformBlockquote(bq, calloutColors) ==
  LET firstP == QueryFirstP(bq.children)
      textContent == firstP.html
      calloutMatch == CalloutMatch(textContent)
      rawType == calloutMatch.rawType
      titleText == IF calloutMatch.group2 # <<>> THEN calloutMatch.group2 ELSE rawType
      resolvedType == resolveCalloutType(rawType)
      own == resolvedType \in OwnKeys
      \* CALLOUT_TYPES[resolvedType] || CALLOUT_TYPES.note
      typeColor == IF own THEN OwnDef(resolvedType).color
                   ELSE IF HasTruthyProperty(resolvedType) THEN "undefined"
                   ELSE OwnDef(S_note).color
      typeIcon  == IF own THEN OwnDef(resolvedType).icon
                   ELSE IF HasTruthyProperty(resolvedType) THEN "undefined"
                   ELSE OwnDef(S_note).icon
      override == SettingsColor(calloutColors, resolvedType)
      color == IF override # "" THEN override ELSE typeColor
      remainingFirstP == Trim(SubSeq(textContent, calloutMatch.end, Len(textContent)))
      \* index 0 and child = firstP: the first child node is a paragraph
      Piece(k) == IF k = 1 /\ bq.children[1].tag = "p"
                  THEN IF remainingFirstP # <<>> THEN <<P(remainingFirstP)>> ELSE <<>>
                  ELSE <<bq.children[k]>>
      Collect[k \in 0..Len(bq.children)] ==
        IF k = 0 THEN <<>> ELSE Collect[k - 1] \o Piece(k)
  IN  IF ~firstP.found \/ ~calloutMatch.matched THEN bq
      ELSE [tag |-> "div", class |-> "callout", dataCallout |-> resolvedType,
            color |-> color, icon |-> typeIcon,
            title |-> IF titleText # <<>> THEN titleText ELSE Capitalize(resolvedType),
            content |-> Collect[Len(bq.children)]]

\* The forEach over the blockquotes of the container in document order, nested
\* ones included (markdownEngine.ts:175-177, 237).  A blockquote that becomes a
\* callout leaves the container together with its descendants, and the callout
\* holds clones of them: the callback still runs for the nested originals, but
\* they are no longer in the container.  A blockquote that stays keeps its
\* descendants in the container, and so does a callout already there.
RECURSIVE TransformNode(_, _)
TransformNode(node, calloutColors) ==
  IF node.tag = "blockquote"
  THEN LET t == TransformBlockquote(node, calloutColors)
       IN  IF t.tag = "div" THEN t
           ELSE [node EXCEPT !.children =
                   [k \in 1..Len(node.children) |->
                      TransformNode(node.children[k], calloutColors)]]
  ELSE IF node.tag = "div"
  THEN [node EXCEPT !.content =
          [k \in 1..Len(node.content) |-> TransformNode(node.content[k], calloutColors)]]
  ELSE node

transformCallouts(container, calloutColors) ==
  [k \in 1..Len(container) |-> TransformNode(container[k], calloutColors)]

\* identifiers written in the marker
Idents == {S_warning, S_NOTE, S_info, S_zz, S_constructor, S_toString}

\* first paragraphs: a marker with or without a title on its line and a body line
FirstParagraphs ==
  {lead \o <<"[", "!">> \o id \o <<"]">> \o sep \o title \o rest :
     lead \in {<<>>, <<SP>>}, id \in Idents, sep \in {<<>>, <<SP>>, <<NL>>},
     title \in {<<>>, <<"T">>}, rest \in {<<>>, <<NL, "b">>}}
  \cup {<<"b">>, <<"[", "!", "]">>}

Blockquotes ==
  {Blockquote(lead \o <<P(fp)>> \o later) :
     lead \in {<<>>, <<TextNode(<<NL>>)>>}, fp \in FirstParagraphs,
     later \in {<<>>, <<P(<<"c">>)>>}}
  \cup {Blockquote(<<>>)}

\* the blockquotes that follow the first one in a container
TipQuote == Blockquote(<<P(<<"[", "!">> \o S_tip \o <<"]", SP, "T">>)>>)

\* blockquotes that hold a blockquote: after a marker paragraph, after a plain
\* paragraph, and as the first child
NestedQuotes ==
  {Blockquote(<<P(<<"[", "!">> \o S_note \o <<"]", SP, "T">>), TipQuote>>),
   Blockquote(<<P(<<"b">>), TipQuote>>),
   Blockquote(<<TipQuote, P(<<"c">>)>>)}

TailQuotes == {Blockquote(<<P(<<"b">>)>>), TipQuote} \cup NestedQuotes

ColorSettings == {{}, {[key |-> S_warning, color |-> "#123456"]}}

ClIdle ==
  /\ clContainer = <<>>
  /\ clSettings = {}
  /\ clOut = <<>>
  /\ clAgain = <<>>
  /\ clPc = "off"

ClInit ==
  /\ clContainer \in {<<bq>> \o tail : bq \in Blockquotes,
                                      tail \in SeqsUpTo(TailQuotes, MaxQuotes - 1)}
  /\ clSettings \in ColorSettings
  /\ clOut = <<>>
  /\ clAgain = <<>>
  /\ clPc = "call"

CallTransformCallouts ==
  /\ clPc = "call"
  /\ clOut' = transformCallouts(clContainer, clSettings)
  /\ clPc' = "done"
  /\ UNCHANGED <<clContainer, clSettings, clAgain>>
  /\ UNCHANGED notCl

\* transformCallouts runs once more on the container it has transformed
CallTransformCalloutsAgain ==
  /\ clPc = "done"
  /\ clAgain' = transformCallouts(clOut, clSettings)
  /\ clPc' = "again"
  /\ UNCHANGED <<clContainer, clSettings, clOut>>
  /\ UNCHANGED notCl

NextCallout == CallTransformCallouts \/ CallTransformCalloutsAgain

\* the marker of the first blockquote as the reader wrote it
ClMarker == CalloutMatch(clContainer[1].children[FirstP(clContainer[1])].html)

ClTransformed == clPc \in {"done", "again"} /\ clOut[1].tag = "div"

\* C9: resolveCalloutType is total over the identifiers a marker can hold: the
\* name it returns is a key of the registry; it is the lower-cased identifier when
\* that is a key, the owning key when it is an alias, and note otherwise.
C9_ResolveIsTotal ==
  ClTransformed =>
    LET lower == ToLowerCase(ClMarker.rawType)
        resolved == clOut[1].dataCallout
    IN  /\ resolved = resolveCalloutType(ClMarker.rawType)
        /\ resolved \in OwnKeys
        /\ lower \in OwnKeys => resolved = lower
        /\ \A k \in DOMAIN CALLOUT_TYPES :
             lower \in Range(CALLOUT_TYPES[k].aliases) => resolved = CALLOUT_TYPES[k].key
        /\ (lower \notin OwnKeys /\ \A k \in DOMAIN CALLOUT_TYPES :
                                      lower \notin Range(CALLOUT_TYPES[k].aliases))
             => resolved = S_note

\* the title text the reader wrote on the marker line: what stands between the
\* closing bracket and the end of that line
MarkerLineTitle(html) ==
  LET close == CHOOSE j \in 1..Len(html) : html[j] = "]" /\ \A k \in 1..(j - 1) : html[k] # "]"
  IN  Trim(SubSeq(html, close + 1, LineEnd(html, close + 1) - 1))

\* C10: the title row of a callout holds the explicit title text of the marker
\* line when there is one, and otherwise the resolved type name with its first
\* letter capitalized.
C10_TitleDefaultsToCapitalizedType ==
  ClTransformed =>
    LET written == MarkerLineTitle(clContainer[1].children[FirstP(clContainer[1])].html)
    IN  IF written = <<>>
        THEN clOut[1].title = Capitalize(clOut[1].dataCallout)
        ELSE clOut[1].title = written


\* the html has a bracket-bang marker somewhere
HoldsMarker(html) ==
  \E j \in 1..(Len(html) - 1) : html[j] = "[" /\ html[j + 1] = "!"

\* what is left of a first paragraph when its marker line is taken away: the
\* lines after the one that holds the marker
AfterMarkerLine(html) ==
  LET close == CHOOSE j \in 1..Len(html) : html[j] = "]" /\ \A k \in 1..(j - 1) : html[k] # "]"
  IN  Trim(SubSeq(html, LineEnd(html, close + 1), Len(html)))

\* C21: the content region of a callout holds what remains of the first
\* paragraph after the marker line, followed by every later child of the
\* blockquote in order, and holds neither the marker nor the title text of the
\* marker line, also when a whitespace text node stands before the first
\* paragraph.
C21_ContentIsRestAndLaterChildren ==
  ClTransformed =>
    LET bq   == clContainer[1]
        fp   == FirstP(bq)
        rest == AfterMarkerLine(bq.children[fp].html)
    IN  /\ clOut[1].content =
             (IF rest # <<>> THEN <<P(rest)>> ELSE <<>>)
             \o SubSeq(bq.children, fp + 1, Len(bq.children))
        /\ \A k \in DOMAIN clOut[1].content : ~HoldsMarker(clOut[1].content[k].html)

\* C22: transformCallouts is idempotent: a second run on the result of the
\* first changes nothing, also for a blockquote that holds a nested blockquote
\* starting with a callout marker.
C22_CalloutsIdempotent ==
  clPc = "again" => clAgain = clOut

-----------------------------------------------------------------------------
(* preprocessMarkdown as a call, and the claim about it *)

MaxEqRun == 5

\* n equals signs in a row
EqRun(n) == [k \in 1..n |-> EQ]

\* the texts preprocessMarkdown is called with: every short text, and a letter
\* between two runs of equals signs
PpTexts ==
  Texts \cup {EqRun(m) \o <<"a">> \o EqRun(n) : m \in 0..MaxEqRun, n \in 0..MaxEqRun}

PpIdle ==
  /\ ppIn = <<>>
  /\ ppOut = <<>>
  /\ ppAgain = <<>>
  /\ ppPc = "off"

PpInit ==
  /\ ppIn \in PpTexts
  /\ ppOut = <<>>
  /\ ppAgain = <<>>
  /\ ppPc = "call"

CallPreprocessMarkdown ==
  /\ ppPc = "call"
  /\ ppOut' = preprocessMarkdown(ppIn)
  /\ ppPc' = "done"
  /\ UNCHANGED <<ppIn, ppAgain>>
  /\ UNCHANGED notPp

\* preprocessMarkdown is called with the text it returned
CallPreprocessMarkdownAgain ==
  /\ ppPc = "done"
  /\ ppAgain' = preprocessMarkdown(ppOut)
  /\ ppPc' = "again"
  /\ UNCHANGED <<ppIn, ppOut>>
  /\ UNCHANGED notPp

NextPreprocess == CallPreprocessMarkdown \/ CallPreprocessMarkdownAgain

\* x = s[from..to] can stand between two == delimiters: it is not empty and holds
\* no ==; with noEqAtEnd, x does not end with = either
AllowedInner(s, from, to, noEqAtEnd) ==
  /\ from <= to
  /\ \A k \in from..(to - 1) : ~(s[k] = EQ /\ s[k + 1] = EQ)
  /\ noEqAtEnd => s[to] # EQ

\* The pairs of a text read from the left: at an opening == the pair closes at the
\* first later == whose inner text is allowed; the pair is replaced and reading
\* goes on behind it.
RECURSIVE MarkPairs(_, _, _)
MarkPairs(s, i, noEqAtEnd) ==
  IF i > Len(s) THEN <<>>
  ELSE LET closes == {c \in (i + 3)..(Len(s) - 1) :
                        IsDoubleEq(s, c) /\ AllowedInner(s, i + 2, c - 1, noEqAtEnd)}
       IN  IF IsDoubleEq(s, i) /\ closes # {}
           THEN LET c == CHOOSE c \in closes : \A d \in closes : c <= d
                IN  <<MARK_OPEN>> \o SubSeq(s, i + 2, c - 1) \o <<MARK_CLOSE>>
                    \o MarkPairs(s, c + 2, noEqAtEnd)
           ELSE <<s[i]>> \o MarkPairs(s, i + 1, noEqAtEnd)

HasNoPair(s, noEqAtEnd) ==
  \A i \in 1..Len(s), c \in 1..Len(s) :
    ~(IsDoubleEq(s, i) /\ c >= i + 3 /\ IsDoubleEq(s, c)
      /\ AllowedInner(s, i + 2, c - 1, noEqAtEnd))

\* C11 as stated: every pair ==x== with x non-empty and holding no == is replaced
\* by <mark>x</mark>, the rest of the text is kept; a text without such a pair is
\* returned unchanged; the empty text gives the empty text.
C11_EveryPairMarked ==
  ppPc = "done" =>
    /\ ppOut = MarkPairs(ppIn, 1, FALSE)
    /\ HasNoPair(ppIn, FALSE) => ppOut = ppIn
    /\ ppIn = <<>> => ppOut = <<>>

\* C11 amended: the same for the pairs whose inner text x is non-empty, holds no
\* == and does not end with = (an x that ends with = runs into the closing
\* delimiter: five = in a row are no pair).
C11_EveryUnitPairMarked ==
  ppPc = "done" =>
    /\ ppOut = MarkPairs(ppIn, 1, TRUE)
    /\ HasNoPair(ppIn, TRUE) => ppOut = ppIn
    /\ ppIn = <<>> => ppOut = <<>>

\* C11 witness: a pair whose inner text holds a single = has been replaced
C11_Witness ==
  /\ ppPc = "done"
  /\ ppIn = <<EQ, EQ, EQ, "a", EQ, EQ>>
  /\ ppOut = <<MARK_OPEN, EQ, "a", MARK_CLOSE>>

\* C23: preprocessMarkdown is idempotent: applied to its own output it returns
\* that output unchanged.
C23_PreprocessIdempotent ==
  ppPc = "again" => ppAgain = ppOut

\* C24: highlight matching is single-line: the text captured by a replacement,
\* which stands between the mark tags of the output, holds no newline.
C24_CapturedTextOnOneLine ==
  ppPc \in {"done", "again"} =>
    \A i, j \in DOMAIN ppOut :
      (/\ i < j
       /\ ppOut[i] = MARK_OPEN
       /\ ppOut[j] = MARK_CLOSE
       /\ \A k \in (i + 1)..(j - 1) : ppOut[k] \notin {MARK_OPEN, MARK_CLOSE})
      => \A k \in (i + 1)..(j - 1) : ppOut[k] # NL


-----------------------------------------------------------------------------
(* The passes of postProcessHtml over a container's elements
   (markdownEngine.ts:111-164, 173-239, 282-312) *)

\* math sources: one that renders, one with a TeX error, and one nested so deep
\* that the renderer fails with an error that is not a parse error
OK_TEX   == "E=mc^2"
BAD_TEX  == "\\frac{"
DEEP_TEX == "{{{{{...}}}}}"

\* katex.render(tex, el, {throwOnError: false}): a parse error is rendered as the
\* source marked as an error; any other error is thrown
KatexRender(tex) ==
  CASE tex = DEEP_TEX -> [threw |-> TRUE, message |-> "Maximum call stack size exceeded",
                          html |-> <<>>]
    [] tex = BAD_TEX  -> [threw |-> FALSE, message |-> "",
                          html |-> <<"<span class=katex-error>", tex, "</span>">>]
    [] OTHER          -> [threw |-> FALSE, message |-> "",
                          html |-> <<"<span class=katex>", tex, "</span>">>]

\* elements of sanitized HTML, in the shape of the mermaid elements
CalloutQuote == [tag |-> "blockquote", class |-> "", code |-> "",
                 inner |-> <<"[", "!">> \o S_note \o <<"]", SP, "T">>]
MathInline(tex)  == [tag |-> "p", class |-> "", code |-> "language-math math-inline",
                     inner |-> <<tex>>]
MathDisplay(tex) == [tag |-> "pre", class |-> "", code |-> "language-math math-display",
                     inner |-> <<tex>>]
TextMath(tex)    == [tag |-> "p", class |-> "", code |-> "", inner |-> <<"$", tex, "$">>]
\* a math-display code element that is not inside a pre
MathDisplayBare(tex) == [tag |-> "p", class |-> "", code |-> "language-math math-display",
                         inner |-> <<tex>>]

\* transformCallouts on the flat elements: a blockquote whose first paragraph
\* matches the callout pattern is replaced by the callout structure
CalloutsPass(nodes) ==
  [k \in 1..Len(nodes) |->
     IF nodes[k].tag = "blockquote" /\ CalloutMatch(nodes[k].inner).matched
     THEN LET m == CalloutMatch(nodes[k].inner)
          IN  [tag |-> "div", class |-> "callout", code |-> "",
               inner |-> <<resolveCalloutType(m.rawType),
                           IF m.group2 # <<>> THEN m.group2 ELSE m.rawType>>]
     ELSE nodes[k]]

\* the language of a code element's class (the match of language-(\S+), line 290)
CodeLang(code) ==
  CASE code = "language-js"                -> "js"
    [] code = "language-mermaid"           -> "mermaid"
    [] code = "language-math math-inline"  -> "math"
    [] code = "language-math math-display" -> "math"
    [] OTHER                               -> ""

\* the element holds a pre with a code child that has a language class: a pre, or
\* a wrapper that addCodeLanguageLabels put around one
HasPreCode(n) == CodeLang(n.code) # "" /\ (n.tag = "pre" \/ n.class = "code-block-wrapper")

CodeLabel(lang) == "<span class=code-language-label>" \o lang \o "</span>"

\* addCodeLanguageLabels (lines 282-312)
LabelsPass(nodes) ==
  [k \in 1..Len(nodes) |->
     IF HasPreCode(nodes[k]) /\ CodeLang(nodes[k].code) \notin {"mermaid", "math"}
     THEN [tag |-> "div", class |-> "code-block-wrapper", code |-> nodes[k].code,
           inner |-> <<CodeLabel(CodeLang(nodes[k].code))>> \o nodes[k].inner]
     ELSE nodes[k]]

\* a text node with a delimited expression outside pre and code, for the
\* delimiter scan of renderMathInElement
IsTextMath(n) == n.code = "" /\ n.tag = "p" /\ Len(n.inner) = 3 /\ n.inner[1] = "$"

IsMathCode(n) == n.code \in {"language-math math-inline", "language-math math-display"}

Rendered(n, html) == [tag |-> IF n.tag = "pre" THEN "div" ELSE n.tag,
                      class |-> "", code |-> "", inner |-> html]

\* step 1 (lines 114-122): renderMathInElement renders the delimited expressions
\* in document order; it handles a parse error itself and rethrows anything else,
\* which ends the scan
RECURSIVE AutoRender(_, _)
AutoRender(nodes, k) ==
  IF k > Len(nodes) THEN [nodes |-> nodes, threw |-> FALSE, message |-> ""]
  ELSE IF ~IsTextMath(nodes[k]) THEN AutoRender(nodes, k + 1)
  ELSE LET r == KatexRender(nodes[k].inner[2])
       IN  IF r.threw THEN [nodes |-> nodes, threw |-> TRUE, message |-> r.message]
           ELSE AutoRender([nodes EXCEPT ![k] = Rendered(nodes[k], r.html)], k + 1)

\* what step 2 puts in the place of a code element (lines 133-137, 146-156):
\* a span for inline math; for display math a div of class katex-display, which
\* replaces the pre when the code element is the child of one
RenderedCode(n, html) ==
  IF n.code = "language-math math-display"
  THEN IF n.tag = "pre"
       THEN [tag |-> "div", class |-> "katex-display", code |-> "", inner |-> html]
       ELSE [tag |-> n.tag, class |-> n.class, code |-> "",
             inner |-> <<"<div class=katex-display>">> \o html \o <<"</div>">>]
  ELSE [tag |-> n.tag, class |-> n.class, code |-> "",
        inner |-> <<"<span>">> \o html \o <<"</span>">>]

\* step 2 with the display math left as it is, for comparison
MathCodePassInlineOnly(nodes) ==
  [k \in 1..Len(nodes) |->
     IF nodes[k].code = "language-math math-inline" /\ ~KatexRender(nodes[k].inner[1]).threw
     THEN RenderedCode(nodes[k], KatexRender(nodes[k].inner[1]).html)
     ELSE nodes[k]]

\* step 2 (lines 130-159): each math-inline and math-display code element is
\* rendered in its own try block
MathCodePass(nodes) ==
  [k \in 1..Len(nodes) |->
     IF IsMathCode(nodes[k]) /\ ~KatexRender(nodes[k].inner[1]).threw
     THEN RenderedCode(nodes[k], KatexRender(nodes[k].inner[1]).html)
     ELSE nodes[k]]

MathCodeWarnings(nodes) ==
  LET failed == SelectSeq([k \in 1..Len(nodes) |-> k],
                          LAMBDA k : IsMathCode(nodes[k]) /\ KatexRender(nodes[k].inner[1]).threw)
  IN  [j \in 1..Len(failed) |-> KatexRender(nodes[failed[j]].inner[1]).message]

\* renderMathInContainer (lines 111-164): the whole body is inside one try, so an
\* error thrown by step 1 skips step 2
renderMathInContainer(nodes) ==
  LET scan == AutoRender(nodes, 1)
  IN  IF scan.threw
      THEN [nodes |-> scan.nodes, warned |-> <<scan.message>>]
      ELSE [nodes |-> MathCodePass(scan.nodes), warned |-> MathCodeWarnings(scan.nodes)]


-----------------------------------------------------------------------------
(* The preview: the post-process effect (part_008:33-47) and the
   postProcessHtml calls it starts (markdownEngine.ts:322-328) *)

PvElements ==
  {Paragraph, CalloutQuote, PreJs,
   PreMermaid(GRAPH), PreMermaid(BAD_GRAPH), PreMermaid(BLANK),
   MathInline(OK_TEX), MathInline(DEEP_TEX), MathDisplay(BAD_TEX),
   MathDisplayBare(OK_TEX), TextMath(OK_TEX), TextMath(DEEP_TEX)}

PvDocs == SeqsUpTo(PvElements, MaxDocLen)

\* the passes of postProcessHtml in the order of its statements (lines 324-327)
PassOrderLabelsFirst == <<"callouts", "labels", "mermaid", "math">>

PassOrder == <<"callouts", "mermaid", "labels", "math">>

\* the statement after pass p, "done" after the last one
NextPass(p) ==
  LET i == CHOOSE j \in 1..Len(PassOrder) : PassOrder[j] = p
  IN  IF i = Len(PassOrder) THEN "done" ELSE PassOrder[i + 1]

PvIdle ==
  /\ pvHtml = <<>>
  /\ pvNodes = <<>>
  /\ pvGen = 0
  /\ pvCalls = <<>>
  /\ pvWarned = <<>>

\* the component is mounted with its htmlContent, the effect has not run yet
PvInit ==
  /\ pvHtml \in PvDocs
  /\ pvNodes = <<>>
  /\ pvGen = 0
  /\ pvCalls = <<>>
  /\ pvWarned = <<>>

\* a call executes statements now: it is neither suspended in an await nor finished
PvRunning(c) == c.pc \notin {"awaiting", "done"}

\* a new task (an effect, the resumption of an await) starts only when the
\* running code has suspended or returned
PvNoCallRunning == \A k \in DOMAIN pvCalls : ~PvRunning(pvCalls[k])

\* the content of the next render: the same HTML with changed settings (the
\* effect depends on both, part_008:47) or the HTML with one more paragraph
PvNextContents ==
  IF pvGen = 0 THEN {pvHtml} ELSE {pvHtml, Append(pvHtml, Paragraph)}

\* The effect (part_008:33-47): innerHTML is assigned and postProcessHtml called.
PvEffectRuns ==
  /\ pvGen < MaxUpdates
  /\ PvNoCallRunning
  /\ \E html \in PvNextContents :
       /\ pvHtml' = html
       /\ pvNodes' = html
  /\ pvGen' = pvGen + 1
  /\ pvCalls' = Append(pvCalls, [pc |-> PassOrder[1], gen |-> pvGen + 1, blocks |-> <<>>,
                                 idx |-> 0, id |-> 0, log |-> <<>>])
  /\ UNCHANGED <<pvWarned, mermaidIdCounter>>
  /\ UNCHANGED notPv

PvStep(k, pc, log) == [pvCalls[k] EXCEPT !.pc = pc, !.log = Append(@, log)]

\* transformCallouts(container, settings) (line 324)
PvTransformCallouts ==
  /\ \E k \in DOMAIN pvCalls :
       /\ pvCalls[k].pc = "callouts"
       /\ pvCalls' = [pvCalls EXCEPT ![k] = PvStep(k, NextPass("callouts"), "callouts")]
  /\ pvNodes' = CalloutsPass(pvNodes)
  /\ UNCHANGED <<pvHtml, pvGen, pvWarned, mermaidIdCounter>>
  /\ UNCHANGED notPv

\* renderMermaidDiagrams is entered (line 325): the query (line 250).  The call
\* keeps the elements it found, attached to the container or not.
PvRenderMermaidDiagrams ==
  /\ \E k \in DOMAIN pvCalls :
       /\ pvCalls[k].pc = "mermaid"
       /\ pvCalls' = [pvCalls EXCEPT ![k] =
            [PvStep(k, "loop", "mermaid") EXCEPT
               !.blocks = [j \in 1..Len(QueryMermaidBlocks(pvNodes)) |->
                             [pos |-> QueryMermaidBlocks(pvNodes)[j],
                              node |-> pvNodes[QueryMermaidBlocks(pvNodes)[j]]]],
               !.idx = 1]]
  /\ UNCHANGED <<pvHtml, pvNodes, pvGen, pvWarned, mermaidIdCounter>>
  /\ UNCHANGED notPv

PvInLoop(c) == c.pc = "loop" /\ c.idx <= Len(c.blocks)

\* the two continue statements (lines 254, 257) for the call's current block
PvSkips(c) ==
  \/ c.blocks[c.idx].node.tag # "pre"
  \/ MermaidTrim(c.blocks[c.idx].node.inner[1]) = ""

PvMermaidContinue ==
  /\ \E k \in DOMAIN pvCalls :
       /\ PvInLoop(pvCalls[k])
       /\ PvSkips(pvCalls[k])
       /\ pvCalls' = [pvCalls EXCEPT ![k].idx = @ + 1]
  /\ UNCHANGED <<pvHtml, pvNodes, pvGen, pvWarned, mermaidIdCounter>>
  /\ UNCHANGED notPv

\* mermaid.render is called and awaited (lines 260-261)
PvMermaidAwait ==
  /\ \E k \in DOMAIN pvCalls :
       /\ PvInLoop(pvCalls[k])
       /\ ~PvSkips(pvCalls[k])
       /\ pvCalls' = [pvCalls EXCEPT ![k].pc = "awaiting", ![k].id = mermaidIdCounter]
  /\ mermaidIdCounter' = mermaidIdCounter + 1
  /\ UNCHANGED <<pvHtml, pvNodes, pvGen, pvWarned>>
  /\ UNCHANGED notPv

PvAwaited(c) == MermaidRender(c.id, MermaidTrim(c.blocks[c.idx].node.inner[1]))

\* the render resolves (lines 261-266): pre.replaceWith(wrapper) changes the
\* container only when the pre is still in it
PvMermaidRendered ==
  /\ PvNoCallRunning
  /\ \E k \in DOMAIN pvCalls :
       /\ pvCalls[k].pc = "awaiting"
       /\ ~PvAwaited(pvCalls[k]).threw
       /\ pvCalls' = [pvCalls EXCEPT ![k] = [PvStep(k, "loop", "rendered") EXCEPT !.idx = @ + 1]]
       /\ pvNodes' = IF pvCalls[k].gen = pvGen
                     THEN [pvNodes EXCEPT ![pvCalls[k].blocks[pvCalls[k].idx].pos] =
                             MermaidWrapper(PvAwaited(pvCalls[k]).svg)]
                     ELSE pvNodes
  /\ UNCHANGED <<pvHtml, pvGen, pvWarned, mermaidIdCounter>>
  /\ UNCHANGED notPv

\* the render rejects: the catch block (lines 267-270)
PvMermaidFailed ==
  /\ PvNoCallRunning
  /\ \E k \in DOMAIN pvCalls :
       /\ pvCalls[k].pc = "awaiting"
       /\ PvAwaited(pvCalls[k]).threw
       /\ pvCalls' = [pvCalls EXCEPT ![k] = [PvStep(k, "loop", "failed") EXCEPT !.idx = @ + 1]]
       /\ pvWarned' = Append(pvWarned, PvAwaited(pvCalls[k]).message)
  /\ UNCHANGED <<pvHtml, pvNodes, pvGen, mermaidIdCounter>>
  /\ UNCHANGED notPv

\* the loop is over and renderMermaidDiagrams returns to postProcessHtml
PvMermaidReturns ==
  /\ \E k \in DOMAIN pvCalls :
       /\ pvCalls[k].pc = "loop"
       /\ pvCalls[k].idx > Len(pvCalls[k].blocks)
       /\ pvCalls' = [pvCalls EXCEPT ![k] = PvStep(k, NextPass("mermaid"), "mermaid-end")]
  /\ UNCHANGED <<pvHtml, pvNodes, pvGen, pvWarned, mermaidIdCounter>>
  /\ UNCHANGED notPv

\* addCodeLanguageLabels(container) (line 326)
PvAddCodeLanguageLabels ==
  /\ \E k \in DOMAIN pvCalls :
       /\ pvCalls[k].pc = "labels"
       /\ pvCalls' = [pvCalls EXCEPT ![k] = PvStep(k, NextPass("labels"), "labels")]
  /\ pvNodes' = LabelsPass(pvNodes)
  /\ UNCHANGED <<pvHtml, pvGen, pvWarned, mermaidIdCounter>>
  /\ UNCHANGED notPv

\* renderMathInContainer(container) (line 327)
PvRenderMath ==
  /\ \E k \in DOMAIN pvCalls :
       /\ pvCalls[k].pc = "math"
       /\ pvCalls' = [pvCalls EXCEPT ![k] = PvStep(k, NextPass("math"), "math")]
  /\ pvNodes' = renderMathInContainer(pvNodes).nodes
  /\ pvWarned' = pvWarned \o renderMathInContainer(pvNodes).warned
  /\ UNCHANGED <<pvHtml, pvGen, mermaidIdCounter>>
  /\ UNCHANGED notPv

NextPreview ==
  \/ PvEffectRuns
  \/ PvTransformCallouts
  \/ PvRenderMermaidDiagrams
  \/ PvMermaidContinue
  \/ PvMermaidAwait
  \/ PvMermaidRendered
  \/ PvMermaidFailed
  \/ PvMermaidReturns
  \/ PvAddCodeLanguageLabels
  \/ PvRenderMath

-----------------------------------------------------------------------------
(* Claims about the post-processor passes *)

\* C17: at most one postProcessHtml pass is active on the preview container at
\* any time: while a call has not run to completion, no other call on the same
\* container has been started.
C17_OnePassAtATime ==
  \A j, k \in DOMAIN pvCalls :
    j < k /\ pvCalls[k].pc # "done" => pvCalls[j].pc = "done"

\* the language labels an element of the preview carries; every label comes
\* with one code-block-wrapper around the pre (markdownEngine.ts:298-310); a
\* rendered diagram holds its svg and has no code child to label
LabelsOf(n) ==
  IF n.class = "mermaid-diagram" THEN 0
  ELSE Cardinality({i \in 1..Len(n.inner) :
                      \E lang \in {"js", "mermaid", "math"} : n.inner[i] = CodeLabel(lang)})

\* every postProcessHtml call that was started has returned
PvAllDone == pvCalls # <<>> /\ \A k \in DOMAIN pvCalls : pvCalls[k].pc = "done"

\* C29: after any sequence of preview updates, also updates that arrive while
\* an earlier postProcessHtml call awaits a diagram render, every labelled code
\* block of the preview is in exactly one code-block-wrapper with exactly one
\* language label, and mermaid and math blocks and other elements carry none.
C29_OneLabelPerCodeBlock ==
  PvAllDone =>
    \A k \in 1..Len(pvNodes) :
      IF CodeLang(pvNodes[k].code) \notin {"", "mermaid", "math"}
      THEN pvNodes[k].class = "code-block-wrapper" /\ LabelsOf(pvNodes[k]) = 1
      ELSE pvNodes[k].class # "code-block-wrapper" /\ LabelsOf(pvNodes[k]) = 0

\* the place of a log entry in the order of one call
PassRank(entry) ==
  CASE entry = "callouts"    -> 1
    [] entry = "mermaid"     -> 2
    [] entry = "rendered"    -> 3
    [] entry = "failed"      -> 3
    [] entry = "mermaid-end" -> 4
    [] entry = "labels"      -> 5
    [] entry = "math"        -> 6

\* the blocks of a call that renderMermaidDiagrams has to render
PvRenderable(c) ==
  {j \in 1..Len(c.blocks) :
     c.blocks[j].node.tag = "pre" /\ MermaidTrim(c.blocks[j].node.inner[1]) # ""}

\* C18: within one postProcessHtml call the passes run in the order callouts,
\* diagrams, code labels, math, each once and each after the one before has
\* finished; when code labelling starts, every diagram block of the call has been
\* awaited.
C18_PassesInOrder ==
  \A k \in DOMAIN pvCalls :
    LET log == pvCalls[k].log
    IN  /\ \A i, j \in 1..Len(log) : i < j => PassRank(log[i]) <= PassRank(log[j])
        /\ \A p \in {"callouts", "mermaid", "mermaid-end", "labels", "math"} :
             Cardinality({i \in 1..Len(log) : log[i] = p}) <= 1
        /\ "labels" \in Range(log) =>
             Cardinality({i \in 1..Len(log) : PassRank(log[i]) = 3})
               = Cardinality(PvRenderable(pvCalls[k]))
        /\ pvCalls[k].pc = "done" =>
             {"callouts", "mermaid", "mermaid-end", "labels", "math"} \subseteq Range(log)

\* C18 witness: a call has finished that rendered one diagram and failed on another
C18_Witness ==
  \E k \in DOMAIN pvCalls :
    /\ pvCalls[k].pc = "done"
    /\ pvCalls[k].log = <<"callouts", "mermaid", "rendered", "failed", "mermaid-end",
                         "labels", "math">>

\* what became of the element at position k of the HTML
PvShows(k, marker) == marker \in Range(pvNodes[k].inner)

\* C19: a failure in one element is contained.  After the only call on a container
\* has finished, whatever failed in it: every diagram block that can be rendered
\* is a diagram, every code block carries its label, and every math element that
\* can be rendered is rendered.
C19_FailureContained ==
  (Len(pvCalls) = 1 /\ pvCalls[1].pc = "done") =>
    \A k \in 1..Len(pvHtml) :
      /\ (pvHtml[k] = PreMermaid(GRAPH)) => pvNodes[k].class = "mermaid-diagram"
      /\ (pvHtml[k] = PreJs) => PvShows(k, CodeLabel("js"))
      /\ (pvHtml[k] \in {MathInline(OK_TEX), TextMath(OK_TEX)})
           => PvShows(k, "<span class=katex>")
      /\ (pvHtml[k] = MathDisplay(BAD_TEX)) => PvShows(k, "<span class=katex-error>")

\* a step in which some call runs renderMathInContainer and no render throws
PvMathStepWithoutThrow ==
  /\ \E k \in DOMAIN pvCalls :
       /\ pvCalls[k].pc = "math"
       /\ k \in DOMAIN pvCalls'
       /\ pvCalls'[k].pc # "math"
  /\ renderMathInContainer(pvNodes).warned = <<>>

\* C25: when renderMathInContainer has run on a container and no render call
\* threw, the container holds no math-inline and no math-display code element:
\* each inline one is replaced by a span, each display one by a div of class
\* katex-display, which takes the place of the enclosing pre when there is one.
C25_NoMathCodeLeft ==
  [][PvMathStepWithoutThrow =>
       /\ Len(pvNodes') = Len(pvNodes)
       /\ \A k \in DOMAIN pvNodes :
            /\ ~IsMathCode(pvNodes'[k])
            /\ pvNodes[k].code = "language-math math-inline"
                 => pvNodes'[k].tag = pvNodes[k].tag /\ pvNodes'[k].inner[1] = "<span>"
            /\ (pvNodes[k].code = "language-math math-display" /\ pvNodes[k].tag = "pre")
                 => pvNodes'[k].tag = "div" /\ pvNodes'[k].class = "katex-display"
            /\ (pvNodes[k].code = "language-math math-display" /\ pvNodes[k].tag # "pre")
                 => /\ pvNodes'[k].tag = pvNodes[k].tag
                    /\ pvNodes'[k].inner[1] = "<div class=katex-display>"]_vars

\* C25 witness: the only call has finished without a warning on a container that
\* held an inline and a display math element; both are replaced
C25_Witness ==
  /\ Len(pvCalls) = 1
  /\ pvCalls[1].pc = "done"
  /\ pvWarned = <<>>
  /\ pvHtml = <<MathInline(OK_TEX), MathDisplay(BAD_TEX)>>
  /\ pvNodes[1].inner[1] = "<span>"
  /\ pvNodes[2].class = "katex-display"

-----------------------------------------------------------------------------
(* Style settings: stylesToCSSVars (styleSettings, part_001:75-101) and the
   literal values printPdf resolves for the print document
   (useExport.ts:19-55, used in its style sheet at lines 57-225).

   A settings object is a function from field names to values; a field the
   object lacks is outside its DOMAIN and reads as undefined.  Header and
   footer texts are character sequences, colours and families are strings,
   fontSize and maxContentWidth are integers, lineHeight is kept in tenths
   and calloutColors is a set of key/color pairs. *)

MaxSlotLen == 2

DQ  == "\""
BSL == "\\"

S_undefined == <<"u", "n", "d", "e", "f", "i", "n", "e", "d">>

HeaderFooterSlots ==
  <<"headerLeft", "headerCenter", "headerRight",
    "footerLeft", "footerCenter", "footerRight">>

HeadingLevels == <<"h1Color", "h2Color", "h3Color", "h4Color">>

DEFAULT_STYLE_SETTINGS ==
  [fontFamily |-> "sans", headingFontFamily |-> "sans", fontSize |-> 16,
   lineHeight |-> 16, accentColor |-> "#4f46e5", headingColor |-> "#1e293b",
   h1Color |-> "", h2Color |-> "", h3Color |-> "", h4Color |-> "",
   textColor |-> "#334155", paragraphColor |-> "", backgroundColor |-> "#ffffff",
   codeBgColor |-> "#f6f8fa", maxContentWidth |-> 900, paragraphAlign |-> "left",
   headerLeft |-> <<>>, headerCenter |-> <<>>, headerRight |-> <<>>,
   footerLeft |-> <<>>, footerCenter |-> <<>>, footerRight |-> <<>>,
   calloutColors |-> {}]

FONT_FAMILIES ==
  [sans  |-> "'Inter', ui-sans-serif, system-ui, -apple-system, sans-serif",
   serif |-> "'Georgia', 'Times New Roman', serif",
   mono  |-> "'Fira Code', 'JetBrains Mono', ui-monospace, monospace"]

\* settings.f where f holds a string: undefined when the field is missing
Has(settings, f) == f \in DOMAIN settings

\* a string-valued expression settings.f used as a value: the string, or undefined
StrField(settings, f) == IF Has(settings, f) THEN settings[f] ELSE "undefined"

\* settings.f || other, for a string field: the empty string and undefined are falsy
StrOr(settings, f, other) ==
  IF Has(settings, f) /\ settings[f] # "" THEN settings[f] ELSE other

\* number to string, as a template literal converts it
NumberToString(n) == ToString(n)

\* a number kept in tenths to string: 16 is 1.6 and 20 is 2
TenthsToString(t) ==
  IF t % 10 = 0 THEN ToString(t \div 10)
  ELSE ToString(t \div 10) \o "." \o ToString(t % 10)

\* FONT_FAMILIES[settings.f]: undefined for a missing field or an unknown family
FontFamilyOf(settings, f) ==
  IF Has(settings, f) /\ settings[f] \in DOMAIN FONT_FAMILIES
  THEN FONT_FAMILIES[settings[f]] ELSE "undefined"

\* a template literal that puts settings.f between double quotes
Quoted(settings, f) ==
  <<DQ>> \o (IF Has(settings, f) THEN settings[f] ELSE S_undefined) \o <<DQ>>

\* stylesToCSSVars (part_001:75-101)
stylesToCSSVars(settings) ==
  [x \in {"--md-font-family", "--md-heading-font-family", "--md-font-size",
          "--md-line-height", "--md-accent-color", "--md-heading-color",
          "--md-h1-color", "--md-h2-color", "--md-h3-color", "--md-h4-color",
          "--md-text-color", "--md-p-color", "--md-bg-color", "--md-code-bg",
          "--md-max-width", "--md-p-align",
          "--md-header-left", "--md-header-center", "--md-header-right",
          "--md-footer-left", "--md-footer-center", "--md-footer-right"} |->
     CASE x = "--md-font-family" ->
            IF FontFamilyOf(settings, "fontFamily") # "undefined"
            THEN FontFamilyOf(settings, "fontFamily") ELSE FONT_FAMILIES.sans
       [] x = "--md-heading-font-family" ->
            IF FontFamilyOf(settings, "headingFontFamily") # "undefined"
            THEN FontFamilyOf(settings, "headingFontFamily")
            ELSE IF FontFamilyOf(settings, "fontFamily") # "undefined"
            THEN FontFamilyOf(settings, "fontFamily") ELSE FONT_FAMILIES.sans
       [] x = "--md-font-size" ->
            (IF Has(settings, "fontSize") THEN NumberToString(settings.fontSize)
             ELSE "undefined") \o "px"
       [] x = "--md-line-height" ->
            IF Has(settings, "lineHeight") THEN TenthsToString(settings.lineHeight)
            ELSE "undefined"
       [] x = "--md-accent-color"  -> StrField(settings, "accentColor")
       [] x = "--md-heading-color" -> StrField(settings, "headingColor")
       [] x = "--md-h1-color" -> StrOr(settings, "h1Color", StrField(settings, "headingColor"))
       [] x = "--md-h2-color" -> StrOr(settings, "h2Color", StrField(settings, "headingColor"))
       [] x = "--md-h3-color" -> StrOr(settings, "h3Color", StrField(settings, "headingColor"))
       [] x = "--md-h4-color" -> StrOr(settings, "h4Color", StrField(settings, "headingColor"))
       [] x = "--md-text-color" -> StrField(settings, "textColor")
       [] x = "--md-p-color" -> StrOr(settings, "paragraphColor", StrField(settings, "textColor"))
       [] x = "--md-bg-color" -> StrField(settings, "backgroundColor")
       [] x = "--md-code-bg"  -> StrField(settings, "codeBgColor")
       [] x = "--md-max-width" ->
            (IF Has(settings, "maxContentWidth")
             THEN NumberToString(settings.maxContentWidth) ELSE "undefined") \o "px"
       [] x = "--md-p-align" -> StrField(settings, "paragraphAlign")
       [] x = "--md-header-left"   -> Quoted(settings, "headerLeft")
       [] x = "--md-header-center" -> Quoted(settings, "headerCenter")
       [] x = "--md-header-right"  -> Quoted(settings, "headerRight")
       [] x = "--md-footer-left"   -> Quoted(settings, "footerLeft")
       [] x = "--md-footer-center" -> Quoted(settings, "footerCenter")
       [] x = "--md-footer-right"  -> Quoted(settings, "footerRight")]

\* text.replace of every double quote by a backslash and a double quote
\* (the replace call of useExport.ts:20-25)
RECURSIVE EscapeQuotes(_)
EscapeQuotes(text) ==
  IF text = <<>> THEN <<>>
  ELSE (IF Head(text) = DQ THEN <<BSL, DQ>> ELSE <<Head(text)>>)
       \o EscapeQuotes(Tail(text))

\* one header or footer string of printPdf (useExport.ts:20-25): a missing or
\* empty text gives the two quotes alone
PrintSlot(settings, f) ==
  IF Has(settings, f) /\ settings[f] # <<>>
  THEN <<DQ>> \o EscapeQuotes(settings[f]) \o <<DQ>>
  ELSE <<DQ, DQ>>

\* the values printPdf resolves (useExport.ts:20-25 and 43-55) and the colour
\* its style sheet gives each heading level (lines 130, 138, 143, 144)
PrintStyles(settings) ==
  LET headingColor == StrOr(settings, "headingColor", "#1e293b")
  IN
  [x \in {"headerLeft", "headerCenter", "headerRight",
          "footerLeft", "footerCenter", "footerRight",
          "fontFamily", "fontSize", "lineHeight", "textColor", "headingColor",
          "accentColor", "codeBg", "pAlign", "h1", "h2", "h3", "h4"} |->
     CASE x \in {HeaderFooterSlots[k] : k \in 1..6} -> PrintSlot(settings, x)
       [] x = "fontFamily" ->
            IF FontFamilyOf(settings, "fontFamily") # "undefined"
            THEN FontFamilyOf(settings, "fontFamily") ELSE FONT_FAMILIES.sans
       [] x = "fontSize" ->
            (IF Has(settings, "fontSize") THEN NumberToString(settings.fontSize)
             ELSE "undefined") \o "px"
       [] x = "lineHeight" ->
            IF Has(settings, "lineHeight") THEN TenthsToString(settings.lineHeight)
            ELSE "undefined"
       [] x = "textColor"    -> StrOr(settings, "textColor", "#334155")
       [] x = "headingColor" -> headingColor
       [] x = "accentColor"  -> StrOr(settings, "accentColor", "#4f46e5")
       [] x = "codeBg"       -> StrOr(settings, "codeBgColor", "#f6f8fa")
       [] x = "pAlign"       -> StrOr(settings, "paragraphAlign", "left")
       [] x \in {"h1", "h2", "h3", "h4"} -> headingColor]

\* ---- the settings the two functions are applied to

SlotChars == {"a", DQ, BSL}
SlotTexts == SeqsUpTo(SlotChars, MaxSlotLen)

\* complete settings that differ from the defaults in their heading colours
HeadingSettings ==
  {[DEFAULT_STYLE_SETTINGS EXCEPT !.headingColor = g, !.h1Color = c1,
                                  !.h2Color = c2, !.h3Color = c3, !.h4Color = c4] :
     g \in {"", "#1e293b", "#aa0000"}, c1 \in {"", "#111111"}, c2 \in {"", "#222222"},
     c3 \in {"", "#333333"}, c4 \in {"", "#444444"}}

\* complete settings that differ from the defaults in one header or footer text
SlotSettings ==
  {[DEFAULT_STYLE_SETTINGS EXCEPT ![HeaderFooterSlots[k]] = t] :
     k \in 1..6, t \in SlotTexts}

CompleteSettings == HeadingSettings \cup SlotSettings

\* a stored settings object that lacks one field of the defaults
PartialSettings ==
  {[f \in DOMAIN DEFAULT_STYLE_SETTINGS \ {g} |-> DEFAULT_STYLE_SETTINGS[f]] :
     g \in DOMAIN DEFAULT_STYLE_SETTINGS}

StIdle ==
  /\ stSettings = DEFAULT_STYLE_SETTINGS
  /\ stCssVars = <<>>
  /\ stPrint = <<>>
  /\ stDone = {}

StInit ==
  /\ stSettings \in CompleteSettings \cup PartialSettings
  /\ stCssVars = <<>>
  /\ stPrint = <<>>
  /\ stDone = {}

\* the preview computes its custom properties (part_008:29)
CallStylesToCSSVars ==
  /\ "css" \notin stDone
  /\ stCssVars' = stylesToCSSVars(stSettings)
  /\ stDone' = stDone \cup {"css"}
  /\ UNCHANGED <<stSettings, stPrint>>
  /\ UNCHANGED notSt

\* printPdf resolves the values of its style sheet (useExport.ts:19-55)
ResolvePrintStyles ==
  /\ "print" \notin stDone
  /\ stPrint' = PrintStyles(stSettings)
  /\ stDone' = stDone \cup {"print"}
  /\ UNCHANGED <<stSettings, stCssVars>>
  /\ UNCHANGED notSt

NextStyles == CallStylesToCSSVars \/ ResolvePrintStyles

-----------------------------------------------------------------------------
(* The export: handleExport (part_007:242-246, and the revision of
   App.tsx:184-188) and printPdf (useExport.ts:8-304).

   printPdf is one async call.  It suspends at the dynamic import (line 29), at
   postProcessHtml (line 35) and at the promise that the settle timer resolves
   (lines 264-288).  postProcessHtml works on a detached container that nothing
   else holds, so its passes are taken as one step. *)

PRINT_SETTLE_MS == 300

\* a timer without delay, for comparison
SettleDelayNone == PRINT_SETTLE_MS - PRINT_SETTLE_MS

\* the delay of the timer that onLoad starts (useExport.ts:266, 280)

SettleDelay == PRINT_SETTLE_MS

\* renderMermaidDiagrams (markdownEngine.ts:249-273) on a container that no
\* other call touches: the blocks in document order, ids from the counter
RECURSIVE MermaidPass(_, _, _, _)
MermaidPass(nodes, k, counter, warned) ==
  IF k > Len(nodes) THEN [nodes |-> nodes, counter |-> counter, warned |-> warned]
  ELSE IF \/ nodes[k].code # "language-mermaid"
          \/ nodes[k].tag # "pre"
          \/ MermaidTrim(nodes[k].inner[1]) = ""
       THEN MermaidPass(nodes, k + 1, counter, warned)
  ELSE LET r == MermaidRender(counter, MermaidTrim(nodes[k].inner[1]))
       IN  IF r.threw
           THEN MermaidPass(nodes, k + 1, counter + 1, Append(warned, r.message))
           ELSE MermaidPass([nodes EXCEPT ![k] = MermaidWrapper(r.svg)], k + 1,
                            counter + 1, warned)

\* transformCallouts reads currentSettings.calloutColors[resolvedType] for each
\* blockquote that matches (markdownEngine.ts:174, 193): without a settings
\* argument the defaults are used, and a settings object that lacks
\* calloutColors makes that read throw a TypeError
TransformCalloutsThrows(nodes, hasSettings, settings) ==
  /\ hasSettings
  /\ ~Has(settings, "calloutColors")
  /\ \E k \in 1..Len(nodes) :
       nodes[k].tag = "blockquote" /\ CalloutMatch(nodes[k].inner).matched

\* postProcessHtml(container, settings) (markdownEngine.ts:322-328)
postProcessHtml(nodes, hasSettings, settings, counter) ==
  IF TransformCalloutsThrows(nodes, hasSettings, settings)
  THEN [threw |-> TRUE, nodes |-> nodes, counter |-> counter,
        warned |-> <<"TypeError: Cannot read properties of undefined">>]
  ELSE LET m == MermaidPass(CalloutsPass(nodes), 1, counter, <<>>)
           r == renderMathInContainer(LabelsPass(m.nodes))
       IN  [threw |-> FALSE, nodes |-> r.nodes, counter |-> m.counter,
            warned |-> m.warned \o r.warned]

ExElements ==
  {Paragraph, CalloutQuote, PreJs, PreMermaid(GRAPH), PreMermaid(BAD_GRAPH),
   MathInline(OK_TEX), TextMath(DEEP_TEX)}

ExDocs == SeqsUpTo(ExElements, MaxDocLen)

\* the settings the App holds: the defaults, a stored record from before
\* calloutColors existed (useLocalStorage returns the stored value as it is,
\* part_007:92), and settings with a header text
ExSettingsChoices ==
  {DEFAULT_STYLE_SETTINGS,
   [f \in DOMAIN DEFAULT_STYLE_SETTINGS \ {"calloutColors"} |-> DEFAULT_STYLE_SETTINGS[f]],
   [DEFAULT_STYLE_SETTINGS EXCEPT !.headerLeft = <<"a", DQ>>]}

NoArgs == [contentHtml |-> <<>>, hasSettings |-> FALSE, settings |-> <<>>]
NoDoc  == [state |-> "none", body |-> <<>>]

ExIdle ==
  /\ exHtmlOutput = <<>>
  /\ exSettings = DEFAULT_STYLE_SETTINGS
  /\ exPreview = <<>>
  /\ exArgs = NoArgs
  /\ exPc = "off"
  /\ exContainer = <<>>
  /\ exDoc = NoDoc
  /\ exToasts = <<>>
  /\ exIsExporting = FALSE
  /\ exLog = <<>>
  /\ exTimer = -1
  /\ exSinceLoad = 0
  /\ exFailed = {}
  /\ exWarned = <<>>
  /\ exIframes = 0
  /\ exCleanup = FALSE

\* the App shows a document; the preview effect has not run yet
ExInit ==
  /\ exHtmlOutput \in ExDocs
  /\ exSettings \in ExSettingsChoices
  /\ exPreview = <<>>
  /\ exArgs = NoArgs
  /\ exPc = "mounted"
  /\ exContainer = <<>>
  /\ exDoc = NoDoc
  /\ exToasts = <<>>
  /\ exIsExporting = FALSE
  /\ exLog = <<>>
  /\ exTimer = -1
  /\ exSinceLoad = 0
  /\ exFailed = {}
  /\ exWarned = <<>>
  /\ exIframes = 0
  /\ exCleanup = FALSE

exRest == <<exHtmlOutput, exSettings>>

\* the iframe in the body and its removal timer
exFrame == <<exIframes, exCleanup>>

\* The preview effect (part_008:33-47) runs to its end: the container gets the
\* HTML and postProcessHtml works on it; when that throws the container keeps
\* what it has.
ExPreviewEffect ==
  /\ exPc = "mounted"
  /\ LET r == postProcessHtml(exHtmlOutput, TRUE, exSettings, mermaidIdCounter)
     IN  /\ exPreview' = r.nodes
         /\ mermaidIdCounter' = r.counter
  /\ exPc' = "idle"
  /\ UNCHANGED <<exRest, exArgs, exContainer, exDoc, exToasts, exIsExporting, exLog,
                 exTimer, exSinceLoad, exFailed, exWarned>>
  /\ UNCHANGED exFrame
  /\ UNCHANGED notEx

\* the catch block of printPdf (lines 299-304) after the step named failed
ExCatch(failed, error) ==
  /\ exWarned' = Append(exWarned, error)
  /\ exToasts' = exToasts \o <<"error: Failed to export PDF", "dismiss">>
  /\ exIsExporting' = FALSE
  /\ exFailed' = exFailed \cup {failed}
  /\ exPc' = "ended"

\* printPdf is called (lines 8-29): the loading toast, the header and footer
\* strings, which read the fields of settings, and the dynamic import
printPdf(args) ==
  /\ exArgs' = args
  /\ IF args.hasSettings
     THEN /\ exIsExporting' = TRUE
          /\ exToasts' = Append(exToasts, "loading: Preparing PDF...")
          /\ exPc' = "importing"
          /\ UNCHANGED <<exFailed, exWarned>>
     ELSE /\ exIsExporting' = FALSE
          /\ exToasts' = exToasts \o <<"loading: Preparing PDF...",
                                       "error: Failed to export PDF", "dismiss">>
          /\ exWarned' = Append(exWarned, "TypeError: Cannot read properties of undefined")
          /\ exFailed' = exFailed \cup {"settings"}
          /\ exPc' = "ended"
  /\ UNCHANGED <<exRest, exPreview, exContainer, exDoc, exLog, exTimer, exSinceLoad>>
  /\ UNCHANGED mermaidIdCounter
  /\ UNCHANGED exFrame
  /\ UNCHANGED notEx

\* handleExport (part_007:242-246): the sanitized HTML and the settings
handleExport ==
  /\ exPc = "idle"
  /\ printPdf([contentHtml |-> exHtmlOutput, hasSettings |-> TRUE, settings |-> exSettings])

\* handleExport in the revision of App.tsx:184-188: the innerHTML of the
\* preview element when there is one, and no settings argument
handleExportFromPreview ==
  /\ exPc = "idle"
  /\ \E previewElement \in BOOLEAN :
       printPdf([contentHtml |-> IF previewElement THEN exPreview ELSE exHtmlOutput,
                 hasSettings |-> FALSE, settings |-> <<>>])

\* the dynamic import rejects (line 29)
ExImportFails ==
  /\ exPc = "importing"
  /\ ExCatch("import", "Failed to fetch dynamically imported module")
  /\ UNCHANGED <<exRest, exPreview, exArgs, exContainer, exDoc, exLog, exTimer, exSinceLoad>>
  /\ UNCHANGED mermaidIdCounter
  /\ UNCHANGED exFrame
  /\ UNCHANGED notEx

\* the import resolves: tempContainer gets the content and postProcessHtml is
\* called and awaited (lines 29-35)
ExImported ==
  /\ exPc = "importing"
  /\ exContainer' = exArgs.contentHtml
  /\ exPc' = "postprocessing"
  /\ UNCHANGED <<exRest, exPreview, exArgs, exDoc, exToasts, exIsExporting, exLog,
                 exTimer, exSinceLoad, exFailed, exWarned>>
  /\ UNCHANGED mermaidIdCounter
  /\ UNCHANGED exFrame
  /\ UNCHANGED notEx

\* postProcessHtml settles (lines 34-40): a rejection is only warned about.
\* The call goes on to build the styles and to create the hidden iframe, which
\* it appends to document.body (lines 228-234).
ExPostProcessSettles ==
  /\ exPc = "postprocessing"
  /\ LET r == postProcessHtml(exContainer, exArgs.hasSettings, exArgs.settings,
                              mermaidIdCounter)
     IN  /\ exContainer' = r.nodes
         /\ mermaidIdCounter' = r.counter
         /\ exWarned' = exWarned \o r.warned
         /\ exFailed' = IF r.threw THEN exFailed \cup {"postprocess"} ELSE exFailed
  /\ exLog' = Append(exLog, "postprocessed")
  /\ exIframes' = exIframes + 1
  /\ UNCHANGED exCleanup
  /\ exPc' = "iframe"
  /\ UNCHANGED <<exRest, exPreview, exArgs, exDoc, exToasts, exIsExporting, exTimer,
                 exSinceLoad>>
  /\ UNCHANGED notEx

\* the iframe has no window or document (lines 236-238)
ExIframeUnavailable ==
  /\ exPc = "iframe"
  /\ ExCatch("iframe", "Could not access iframe document")
  /\ UNCHANGED <<exRest, exPreview, exArgs, exContainer, exDoc, exLog, exTimer, exSinceLoad>>
  /\ UNCHANGED mermaidIdCounter
  /\ UNCHANGED exFrame
  /\ UNCHANGED notEx

\* onLoad (lines 265-281): the settle timer is started
OnLoad(log) ==
  /\ exLog' = log \o <<"loaded">>
  /\ exTimer' = SettleDelay
  /\ exSinceLoad' = 0
  /\ exPc' = "settling"

\* doc.open, doc.write, doc.close and the promise executor (lines 246-288):
\* readyState is complete already, or the load listener is added
ExWriteDocument ==
  /\ exPc = "iframe"
  /\ exDoc' = [state |-> "closed", body |-> exContainer]
  /\ \E complete \in BOOLEAN :
       IF complete
       THEN OnLoad(exLog \o <<"written", "closed">>)
       ELSE /\ exLog' = exLog \o <<"written", "closed", "listening">>
            /\ exPc' = "waitingLoad"
            /\ UNCHANGED <<exTimer, exSinceLoad>>
  /\ UNCHANGED <<exRest, exPreview, exArgs, exContainer, exToasts, exIsExporting,
                 exFailed, exWarned>>
  /\ UNCHANGED mermaidIdCounter
  /\ UNCHANGED exFrame
  /\ UNCHANGED notEx

\* the load event of the iframe
ExLoadEvent ==
  /\ exPc = "waitingLoad"
  /\ OnLoad(exLog)
  /\ UNCHANGED <<exRest, exPreview, exArgs, exContainer, exDoc, exToasts, exIsExporting,
                 exFailed, exWarned>>
  /\ UNCHANGED mermaidIdCounter
  /\ UNCHANGED exFrame
  /\ UNCHANGED notEx

\* time passes while the settle timer runs
ExTick ==
  /\ exPc = "settling"
  /\ exTimer > 0
  /\ exTimer' = IF exTimer > TimeStep THEN exTimer - TimeStep ELSE 0
  /\ exSinceLoad' = exSinceLoad + (IF exTimer > TimeStep THEN TimeStep ELSE exTimer)
  /\ UNCHANGED <<exRest, exPreview, exArgs, exPc, exContainer, exDoc, exToasts,
                 exIsExporting, exLog, exFailed, exWarned>>
  /\ UNCHANGED mermaidIdCounter
  /\ UNCHANGED exFrame
  /\ UNCHANGED notEx

\* the promise is resolved and printPdf runs to its end (lines 290-297)
ExResolved ==
  /\ exToasts' = exToasts \o <<"dismiss", "success: Export completed">>
  /\ exIsExporting' = FALSE
  /\ exPc' = "ended"
  /\ exTimer' = -1
  /\ exCleanup' = TRUE
  /\ UNCHANGED exIframes

\* the timer fires and iframeWindow.print() returns (lines 266-268, 279)
ExPrints ==
  /\ exPc = "settling"
  /\ exTimer = 0
  /\ exLog' = Append(exLog, "print")
  /\ ExResolved
  /\ UNCHANGED <<exRest, exPreview, exArgs, exContainer, exDoc, exSinceLoad, exFailed,
                 exWarned>>
  /\ UNCHANGED mermaidIdCounter
  /\ UNCHANGED notEx

\* iframeWindow.print() throws (lines 269-279): the fallback window is blocked,
\* or it is opened and prints
ExPrintThrows ==
  /\ exPc = "settling"
  /\ exTimer = 0
  /\ exLog' = Append(exLog, "print")
  /\ exFailed' = exFailed \cup {"print"}
  /\ exWarned' = Append(exWarned, "Print failed")
  /\ \E printWindow \in BOOLEAN :
       exDoc' = IF printWindow THEN [exDoc EXCEPT !.state = "copied"] ELSE exDoc
  /\ ExResolved
  /\ UNCHANGED <<exRest, exPreview, exArgs, exContainer, exSinceLoad>>
  /\ UNCHANGED mermaidIdCounter
  /\ UNCHANGED notEx

\* iframeWindow.print() throws and so does the print of the fallback window
\* (line 276): the error leaves the timer callback, resolve is never called
ExFallbackThrows ==
  /\ exPc = "settling"
  /\ exTimer = 0
  /\ exLog' = Append(exLog, "print")
  /\ exFailed' = exFailed \cup {"print"}
  /\ exWarned' = Append(exWarned, "Print failed")
  /\ exDoc' = [exDoc EXCEPT !.state = "copied"]
  /\ exPc' = "hung"
  /\ exTimer' = -1
  /\ UNCHANGED <<exRest, exPreview, exArgs, exContainer, exToasts, exIsExporting,
                 exSinceLoad>>
  /\ UNCHANGED mermaidIdCounter
  /\ UNCHANGED exFrame
  /\ UNCHANGED notEx

\* the cleanup timer of the success path fires (lines 291-293):
\* document.body.removeChild(iframe)
ExCleanupFires ==
  /\ exPc = "ended"
  /\ exCleanup
  /\ exIframes' = exIframes - 1
  /\ exCleanup' = FALSE
  /\ UNCHANGED <<exRest, exPreview, exArgs, exPc, exContainer, exDoc, exToasts,
                 exIsExporting, exLog, exTimer, exSinceLoad, exFailed, exWarned>>
  /\ UNCHANGED mermaidIdCounter
  /\ UNCHANGED notEx

NextExport ==
  \/ ExPreviewEffect
  \/ handleExport
  \/ handleExportFromPreview
  \/ ExImportFails
  \/ ExImported
  \/ ExPostProcessSettles
  \/ ExIframeUnavailable
  \/ ExWriteDocument
  \/ ExLoadEvent
  \/ ExTick
  \/ ExPrints
  \/ ExPrintThrows
  \/ ExFallbackThrows
  \/ ExCleanupFires

-----------------------------------------------------------------------------
(* Claims about the export and the style settings *)

ExCalled == exPc \notin {"off", "mounted", "idle"}


\* C12: on export the post-processor runs exactly once over the exported
\* content: printPdf is handed the sanitized HTML that has not been
\* post-processed, never the processed elements of the live preview, and a
\* written print document has been through postProcessHtml exactly once.
C12_ExportProcessesOnce ==
  ExCalled =>
    /\ exArgs.contentHtml = exHtmlOutput
    /\ Count("postprocessed", exLog) <= 1
    /\ exDoc.state # "none" => Count("postprocessed", exLog) = 1

ExHasToast(kind) ==
  \E i \in DOMAIN exToasts : exToasts[i] = kind

\* C13: an export in which a step of printPdf failed (the import, the
\* post-processing, the iframe document, the print call) ends with an error
\* notification and without the success notification.
C13_FailedExportReportsError ==
  exPc \in {"ended", "hung"} /\ exFailed # {} =>
    /\ ExHasToast("error: Failed to export PDF")
    /\ ~ExHasToast("success: Export completed")

\* the colour the resolution rule gives heading level n: the override of the
\* level, else the general heading colour, else the built-in default
ExpectedHeadingColor(settings, n) ==
  IF settings[HeadingLevels[n]] # "" THEN settings[HeadingLevels[n]]
  ELSE IF settings.headingColor # "" THEN settings.headingColor
  ELSE DEFAULT_STYLE_SETTINGS.headingColor

CssHeadingVars == <<"--md-h1-color", "--md-h2-color", "--md-h3-color", "--md-h4-color">>
PrintHeadingRules == <<"h1", "h2", "h3", "h4">>

\* C14: for every complete settings record and every heading level, the colour
\* stylesToCSSVars gives the level and the colour printPdf gives it are the
\* override of the level when it is not empty, else the general heading colour
\* when that is not empty, else the built-in default.
C14_HeadingColourResolution ==
  stSettings \in CompleteSettings =>
    \A n \in 1..4 :
      /\ "css" \in stDone =>
           stCssVars[CssHeadingVars[n]] = ExpectedHeadingColor(stSettings, n)
      /\ "print" \in stDone =>
           stPrint[PrintHeadingRules[n]] = ExpectedHeadingColor(stSettings, n)

\* the number of backslashes that stand directly before position i
BackslashesBefore(str, i) ==
  CHOOSE k \in 0..(i - 1) :
    /\ \A j \in (i - k)..(i - 1) : str[j] = BSL
    /\ k = i - 1 \/ str[i - k - 1] # BSL

\* the character at i is not escaped: an even number of backslashes before it
Unescaped(str, i) == BackslashesBefore(str, i) % 2 = 0

\* a double-quoted string whose only unescaped double quotes are its first and
\* its last character
ValidQuoted(str) ==
  /\ Len(str) >= 2
  /\ str[1] = DQ
  /\ str[Len(str)] = DQ
  /\ Unescaped(str, Len(str))
  /\ \A i \in 2..(Len(str) - 1) : str[i] = DQ => ~Unescaped(str, i)

CssSlotVars ==
  <<"--md-header-left", "--md-header-center", "--md-header-right",
    "--md-footer-left", "--md-footer-center", "--md-footer-right">>

\* C15: every content string made from a header or footer text, by
\* stylesToCSSVars and by printPdf, is a valid double-quoted string in which
\* every double quote of the text is escaped.
C15_SlotStringsQuoted ==
  stSettings \in CompleteSettings =>
    \A k \in 1..6 :
      /\ "css" \in stDone => ValidQuoted(stCssVars[CssSlotVars[k]])
      /\ "print" \in stDone => ValidQuoted(stPrint[HeaderFooterSlots[k]])

\* C16: printPdf and the transformCallouts it runs tolerate a settings argument
\* that is absent or lacks fields: the call does not fail on reading the
\* settings and the post-processing does not throw.
C16_PartialSettingsTolerated ==
  /\ ExCalled
  /\ \/ ~exArgs.hasSettings
     \/ DOMAIN exArgs.settings # DOMAIN DEFAULT_STYLE_SETTINGS
  => exFailed \cap {"settings", "postprocess"} = {}

\* C20: the print call on the iframe window comes after the document has been
\* written, closed and seen as loaded, and not before the settling delay has
\* passed since then; post-processing has finished before the document is
\* written, and the document holds the post-processed content.
C20_PrintAfterLoadAndSettle ==
  /\ \A p \in DOMAIN exLog :
       exLog[p] = "print" =>
         /\ \E w, c, l \in 1..(p - 1) :
              /\ w < c /\ c < l
              /\ exLog[w] = "written" /\ exLog[c] = "closed" /\ exLog[l] = "loaded"
         /\ exSinceLoad >= PRINT_SETTLE_MS
  /\ \A w \in DOMAIN exLog :
       exLog[w] = "written" => \E q \in 1..(w - 1) : exLog[q] = "postprocessed"
  /\ exDoc.state # "none" => exDoc.body = exContainer

\* C20 witness: an export whose document was not complete right after
\* doc.close, that waited for the load event and the delay, and printed
C20_Witness ==
  /\ exPc = "ended"
  /\ exLog = <<"postprocessed", "written", "closed", "listening", "loaded", "print">>
  /\ exSinceLoad = PRINT_SETTLE_MS
  /\ exFailed = {}
  /\ exDoc.body # <<>>

\* C30: every hidden iframe that printPdf appends to document.body is removed
\* again, on the success path and on every failure path after the append: once
\* the call has settled and no removal is pending, no iframe is left in the body.
C30_IframeRemoved ==
  exPc = "ended" /\ ~exCleanup => exIframes = 0

\* the steps of a running printPdf call that the page itself takes once the
\* post-processing has settled; a click of the user and the load event of the
\* iframe are up to the user and the browser
ExProgress ==
  \/ ExImportFails
  \/ ExImported
  \/ ExIframeUnavailable
  \/ ExWriteDocument
  \/ ExTick
  \/ ExPrints
  \/ ExPrintThrows
  \/ ExFallbackThrows

\* C26: isExporting is false before a printPdf call, true while the call runs,
\* and every call settles with isExporting false again, on the success path and
\* on every failure path, also when the load event of the iframe never comes.
C26_ExportSettles ==
  /\ [](exPc \in {"mounted", "idle"} => ~exIsExporting)
  /\ [](exPc \in {"importing", "postprocessing", "iframe", "waitingLoad", "settling"}
          => exIsExporting)
  /\ (exIsExporting ~> ~exIsExporting)

-----------------------------------------------------------------------------
(* Specifications *)

InitSanitize == SanInit /\ WkIdle /\ AppIdle /\ MmIdle /\ ClIdle /\ PpIdle /\ PvIdle /\ StIdle /\ ExIdle
NextSanitize == CallSanitizeHtml
SpecSanitize == InitSanitize /\ [][NextSanitize]_vars

InitWorker == WkInit /\ SanIdle /\ AppIdle /\ MmIdle /\ ClIdle /\ PpIdle /\ PvIdle /\ StIdle /\ ExIdle
SpecWorker == InitWorker /\ [][WkNext]_vars

Init == AppInit /\ SanIdle /\ WkIdle /\ MmIdle /\ ClIdle /\ PpIdle /\ PvIdle /\ StIdle /\ ExIdle
Spec == Init /\ [][Next]_vars

InitMermaid == MmInit /\ SanIdle /\ WkIdle /\ AppIdle /\ ClIdle /\ PpIdle /\ PvIdle /\ StIdle /\ ExIdle
SpecMermaid == InitMermaid /\ [][NextMermaid]_vars

InitCallout == ClInit /\ SanIdle /\ WkIdle /\ AppIdle /\ MmIdle /\ PpIdle /\ PvIdle /\ StIdle /\ ExIdle
SpecCallout == InitCallout /\ [][NextCallout]_vars

InitPreprocess == PpInit /\ SanIdle /\ WkIdle /\ AppIdle /\ MmIdle /\ ClIdle /\ PvIdle /\ StIdle /\ ExIdle
SpecPreprocess == InitPreprocess /\ [][NextPreprocess]_vars

InitPreview == PvInit /\ SanIdle /\ WkIdle /\ AppIdle /\ MmIdle /\ ClIdle /\ PpIdle /\ StIdle /\ ExIdle
SpecPreview == InitPreview /\ [][NextPreview]_vars


InitStyles == StInit /\ SanIdle /\ WkIdle /\ AppIdle /\ MmIdle /\ ClIdle /\ PpIdle /\ PvIdle /\ ExIdle

SpecStyles == InitStyles /\ [][NextStyles]_vars


InitExport == ExInit /\ SanIdle /\ WkIdle /\ AppIdle /\ MmIdle /\ ClIdle /\ PpIdle /\ PvIdle /\ StIdle

SpecExport == InitExport /\ [][NextExport]_vars


\* The export with every step of the page taken eventually. The awaited
\* post-processing always settles (useExport.ts:34-40): ExPostProcessSettles is
\* enabled exactly while exPc is postprocessing and leaves that position, so
\* its weak fairness is written as the position being left again and again.
SpecExportLive ==
  /\ InitExport
  /\ [][NextExport]_vars
  /\ WF_vars(ExProgress)
  /\ []<>(exPc # "postprocessing")

====
